---- MODULE Spec2Model ----
(***************************************************************************)
(* The FAISS index manager of the image-search service                     *)
(* (src/python-search-service/search_handler.py): the on-disk artifacts,   *)
(* one per (owner, folder) scope, the LRU cache of loaded indexes, the     *)
(* mutations create / add / add_batch / delete and the federated search    *)
(* with its heap merge.                                                    *)
(*                                                                         *)
(* Vectors are two-dimensional integer vectors; a normalized vector is     *)
(* kept in fixed point, in fifths: <<3, 4>> stands for (0.6, 0.8), and a   *)
(* score (an inner product of two normalized vectors) in 25ths.            *)
(***************************************************************************)
EXTENDS Integers, Sequences, FiniteSets, TLC

\* ------------------------------------------------------------- bounds
\* Most vectors an index holds (adds that would exceed it are not issued).
MaxLen == 2
\* The largest top-k a search asks for.
KMax == 2
\* Operations started in one behaviour of the lifecycle specifications.
MaxOps == 4
\* Capacity the handler is constructed with (cache_size, default 50).
CacheSize == 2

Owners == {1, 2}
Folders == {1, 2}
Ids == {1, 2}
Threads == {1, 2}
\* Raw embeddings as the provider returns them (not normalized).
Vecs == {<<3, 4>>, <<8, 6>>}
\* Absent key of folder_owner_map (dict.get returns None).
NoOwner == 0

\* ------------------------------------------------------------- vectors
ISqrt(n) == CHOOSE r \in 0..n : r * r <= n /\ n < (r + 1) * (r + 1)

Norm(v) == ISqrt(v[1] * v[1] + v[2] * v[2])

\* The vector left as the provider returned it.
NormalizeNone(v) == v

\* _normalize: v / ||v||, a zero norm replaced by 1e-10 (the zero vector
\* stays the zero vector).
Normalize(v) ==
    IF Norm(v) = 0 THEN <<0, 0>>
    ELSE <<(v[1] * 5) \div Norm(v), (v[2] * 5) \div Norm(v)>>

\* IndexFlatIP's metric: the inner product.
Dot(a, b) == a[1] * b[1] + a[2] * b[2]

\* ------------------------------------------------------------- scopes
\* A path keyed by the collection id alone, every index under one owner.
GetFolderPathByFolder(user_id, folder_id) == <<1, folder_id>>

\* _get_folder_path: base_folder/<user_id>/<folder_id>.faiss
GetFolderPath(user_id, folder_id) == <<user_id, folder_id>>

\* ------------------------------------------------------------- indexes
\* An IndexIDMap(IndexFlatIP): the sequence of (id, vector) pairs added.
Entry(id, vec) == [id |-> id, vec |-> vec]

EmptyIndex == <<>>

RECURSIVE ZipEntries(_, _)
ZipEntries(vecs, ids) ==
    IF vecs = <<>> THEN <<>>
    ELSE <<Entry(Head(ids), Normalize(Head(vecs)))>> \o ZipEntries(Tail(vecs), Tail(ids))

\* Only the first pair of the call appended.
AddWithIdsFirst(index, vecs, ids) ==
    IF vecs = <<>> THEN index ELSE index \o ZipEntries(<<Head(vecs)>>, <<Head(ids)>>)

\* index.add_with_ids(normalized vectors, ids): appended, ids not checked.
AddWithIds(index, vecs, ids) == index \o ZipEntries(vecs, ids)

\* Position of the remaining entry with the lowest score.
WorstPos(index, q, left) ==
    CHOOSE i \in left :
        \A j \in left :
            \/ Dot(q, index[i].vec) < Dot(q, index[j].vec)
            \/ Dot(q, index[i].vec) = Dot(q, index[j].vec) /\ i <= j

\* Position of the best remaining entry: highest score, the earliest stored
\* among equal scores.
BestPos(index, q, left) ==
    CHOOSE i \in left :
        \A j \in left :
            \/ Dot(q, index[i].vec) > Dot(q, index[j].vec)
            \/ Dot(q, index[i].vec) = Dot(q, index[j].vec) /\ i <= j

RECURSIVE TopFrom(_, _, _, _)
TopFrom(index, q, n, left) ==
    IF n = 0 \/ left = {} THEN <<>>
    ELSE LET b == BestPos(index, q, left)
         IN <<<<Dot(q, index[b].vec), index[b].id>>>>
                \o TopFrom(index, q, n - 1, left \ {b})

\* index.search(query, local_k): the local_k best (distance, id), best first.
IndexSearch(index, q, local_k) == TopFrom(index, q, local_k, DOMAIN index)

Min(a, b) == IF a < b THEN a ELSE b

\* ------------------------------------------------------------- heapq
\* Python's tuple comparison of (distance, image_id, folder_id).
TupleLess(a, b) ==
    \/ a[1] < b[1]
    \/ a[1] = b[1] /\ a[2] < b[2]
    \/ a[1] = b[1] /\ a[2] = b[2] /\ a[3] < b[3]

\* heapq._siftdown(heap, startpos, pos) with 1-based positions.
RECURSIVE SiftDown(_, _, _, _)
SiftDown(heap, startpos, pos, newitem) ==
    IF pos > startpos /\ TupleLess(newitem, heap[pos \div 2])
    THEN SiftDown([heap EXCEPT ![pos] = heap[pos \div 2]], startpos, pos \div 2, newitem)
    ELSE [heap EXCEPT ![pos] = newitem]

\* heapq.heappush
HeapPush(heap, item) ==
    SiftDown(Append(heap, item), 1, Len(heap) + 1, item)

\* heapq._siftup(heap, pos): bubble the smaller child up to a leaf, then
\* sift the item down from there.
RECURSIVE SiftUpFrom(_, _, _)
SiftUpFrom(heap, pos, newitem) ==
    LET child == 2 * pos
        right == child + 1
        pick  == IF right <= Len(heap) /\ ~TupleLess(heap[child], heap[right])
                 THEN right ELSE child
    IN IF child <= Len(heap)
       THEN SiftUpFrom([heap EXCEPT ![pos] = heap[pick]], pick, newitem)
       ELSE SiftDown([heap EXCEPT ![pos] = newitem], 1, pos, newitem)

\* heapq.heappushpop: the heap after pushing item and popping the smallest.
HeapPushPop(heap, item) ==
    IF heap # <<>> /\ TupleLess(heap[1], item)
    THEN SiftUpFrom([heap EXCEPT ![1] = item], 1, item)
    ELSE heap

\* A full heap that drops the new candidate instead of the smallest.
HeapOfferDropNew(heap, item, k) ==
    IF Len(heap) < k THEN HeapPush(heap, item) ELSE heap

\* One candidate into the bounded heap (the loop body at lines 261-264).
HeapOffer(heap, item, k) ==
    IF Len(heap) < k THEN HeapPush(heap, item) ELSE HeapPushPop(heap, item)

RECURSIVE HeapOfferAll(_, _, _, _)
HeapOfferAll(heap, cands, folder_id, k) ==
    IF cands = <<>> THEN heap
    ELSE HeapOfferAll(HeapOffer(heap, <<Head(cands)[1], Head(cands)[2], folder_id>>, k),
                      Tail(cands), folder_id, k)

\* Stable insertion into a list kept in non-increasing order of key x[1].
RECURSIVE InsertDesc(_, _)
InsertDesc(sorted, item) ==
    IF sorted = <<>> THEN <<item>>
    ELSE IF Head(sorted)[1] >= item[1]
         THEN <<Head(sorted)>> \o InsertDesc(Tail(sorted), item)
         ELSE <<item>> \o sorted

RECURSIVE SortDesc(_)
SortDesc(items) ==
    IF items = <<>> THEN <<>>
    ELSE InsertDesc(SortDesc(SubSeq(items, 1, Len(items) - 1)), items[Len(items)])

\* heapq.nlargest(k, heap, key = distance): by distance, best first, equal
\* distances in the order the heap list holds them.
NLargest(k, heap) == SubSeq(SortDesc(heap), 1, Min(k, Len(heap)))


\* ------------------------------------------------------------- state
VARIABLES
    disk,                 \* path -> the artifact on disk (st: none | partial | ok)
    index_cache,          \* self._index_cache: path -> loaded index object, if any
    cache_access_order,   \* self._cache_access_order: list of paths, oldest first
    pc,                   \* per request thread: where it is in its handler
    req,                  \* per request thread: the operation and its arguments
    loc,                  \* per request thread: the handler's local variables
    out,                  \* per request thread: what the handler returned or raised
    prev,                 \* per request thread: the mutation that completed just before
    done,                 \* path -> version written by the last add / delete that returned
    nops,                 \* operations started so far
    db,                   \* the backend's database: folder, share and image records
    recency               \* the cached paths by their last access, the oldest first

vars == <<disk, index_cache, cache_access_order, pc, req, loc, out, prev, done, nops, db,
          recency>>

AllPaths == Owners \X Folders
NoPath == <<0, 0>>

\* An artifact: absent, being written by faiss.write_index (opened with
\* truncation, not yet complete), or a complete serialized index.  ver
\* counts the writes and removals of the path so far.
NoFile(ver) == [st |-> "none", ix |-> EmptyIndex, ver |-> ver]
PartialFile(ver) == [st |-> "partial", ix |-> EmptyIndex, ver |-> ver]
File(ix, ver) == [st |-> "ok", ix |-> ix, ver |-> ver]

\* A deserialized index object: its pairs, the version and path read.
IndexObj(ix, ver, src) == [has |-> TRUE, ix |-> ix, ver |-> ver, src |-> src]
NoIndex == [has |-> FALSE, ix |-> EmptyIndex, ver |-> 0, src |-> NoPath]

NoReq ==
    [op |-> "none", key |-> NoPath, vecs |-> <<>>, ids |-> <<>>,
     fids |-> <<>>, omap |-> [f \in Folders |-> NoOwner], k |-> 0, q |-> <<0, 0>>]

NoOut ==
    [status |-> "none", result |-> <<>>, used |-> <<>>, inval |-> FALSE, wver |-> 0,
     index_deletes |-> <<>>, evicted |-> {},
     forwarded |-> [fids |-> <<>>, omap |-> [f \in Folders |-> NoOwner]]]

NoLoc ==
    [index |-> NoIndex, heap |-> <<>>, rest |-> <<>>, fid |-> 0, key |-> NoPath,
     used |-> <<>>, done0 |-> [p \in AllPaths |-> 0], stale |-> FALSE,
     overlap |-> FALSE, wver |-> 0, ver0 |-> 0, ix0 |-> <<>>,
     st0 |-> "none", cached0 |-> NoIndex, busy0 |-> {}]

NoPrev == [op |-> "none", key |-> NoPath, added |-> <<>>, inval |-> FALSE]

\* The database with no rows: folders as (user_id, id), folder_shares as
\* (folder_id, shared_with_user_id), images as (folder_id, id).
\* uploads: the folders' directories of image files, as (user_id, folder_id).
\* files: the saved image files, as (folder_id, image_id).  tasks: the
\* background tasks the upload route has scheduled.  acked: the images of
\* the uploads answered with success.  resp: the last response of a
\* backend route.  sessions: the rows of the sessions table.  issued: how
\* many tokens have been generated.  revoked: the tokens a logout has
\* succeeded for.  now: the clock.
NoResp == [op |-> "none", status |-> 0, key |-> NoPath, ids |-> <<>>,
           token |-> 0, user_id |-> 0]

NoDb == [folders |-> {}, shares |-> {}, images |-> {}, uploads |-> {},
         files |-> {}, tasks |-> {}, acked |-> {}, resp |-> NoResp,
         sessions |-> {}, issued |-> 0, revoked |-> {}, now |-> 0]

\* The state after SearchHandler.__init__: an empty base folder, an empty
\* cache, no request running.
Init ==
    /\ disk = [p \in AllPaths |-> NoFile(0)]
    /\ index_cache = [p \in AllPaths |-> NoIndex]
    /\ cache_access_order = <<>>
    /\ recency = <<>>
    /\ pc = [t \in Threads |-> "idle"]
    /\ req = [t \in Threads |-> NoReq]
    /\ loc = [t \in Threads |-> NoLoc]
    /\ out = [t \in Threads |-> NoOut]
    /\ prev = [t \in Threads |-> NoPrev]
    /\ done = [p \in AllPaths |-> 0]
    /\ nops = 0
    /\ db = NoDb

\* ------------------------------------------------------------- cache
\* list.remove(x): the first occurrence removed.
RECURSIVE RemoveFirst(_, _)
RemoveFirst(list, x) ==
    IF list = <<>> THEN <<>>
    ELSE IF Head(list) = x THEN Tail(list)
    ELSE <<Head(list)>> \o RemoveFirst(Tail(list), x)

InList(list, x) == \E i \in DOMAIN list : list[i] = x

CachedPaths(map) == {p \in AllPaths : map[p].has}

\* A hit that leaves the key where it is in the list.
CacheTouchNone(order, key) == order

\* _load_index, lines 74-79: a hit moves the key to most recently used.
CacheTouch(order, key) == Append(RemoveFirst(order, key), key)

\* An insertion that evicts nothing.
CacheInsertNoEvict(map, order, key, obj) ==
    [map |-> [map EXCEPT ![key] = obj], order |-> Append(order, key)]

\* _load_index, lines 89-97: insert, then evict the oldest key when the
\* cache holds more than cache_size indexes.  [map, order].
CacheInsert(map, order, key, obj) ==
    LET map1 == [map EXCEPT ![key] = obj]
        order1 == Append(order, key)
    IN IF Cardinality(CachedPaths(map1)) > CacheSize
       THEN [map |-> [map1 EXCEPT ![Head(order1)] = NoIndex], order |-> Tail(order1)]
       ELSE [map |-> map1, order |-> order1]

\* An invalidation that empties the whole cache.
InvalidateCacheAll(map, order, key) ==
    [map |-> [p \in AllPaths |-> NoIndex], order |-> <<>>]

\* An invalidation that leaves the entry in place.
InvalidateCacheKeep(map, order, key) == [map |-> map, order |-> order]

\* _invalidate_cache, lines 103-107.  [map, order].
InvalidateCache(map, order, key) ==
    IF map[key].has
    THEN [map |-> [map EXCEPT ![key] = NoIndex], order |-> RemoveFirst(order, key)]
    ELSE [map |-> map, order |-> order]

\* What the cache should hold by recency, kept apart from the list the
\* code keeps: the paths of list that map still caches, and list after the
\* accesses keys, in their order, that led to map.
KeepCached(list, map) == SelectSeq(list, LAMBDA p : map[p].has)

RECURSIVE TouchAll(_, _)
TouchAll(list, keys) ==
    IF keys = <<>> THEN list
    ELSE TouchAll(Append(SelectSeq(list, LAMBDA p : p # Head(keys)), Head(keys)), Tail(keys))

Recency(list, keys, map) == KeepCached(TouchAll(list, keys), map)

\* ------------------------------------------------------------- search
\* The index asked for k neighbours whatever it holds: FAISS fills the
\* missing ones with id -1 at the lowest distance.
SearchIndexAskK(heap, obj, folder_id, q, k) ==
    HeapOfferAll(heap,
                 IndexSearch(obj.ix, q, k)
                     \o [i \in 1..(k - Min(k, Len(obj.ix))) |-> <<-1000, -1>>],
                 folder_id, k)

\* Every candidate reported under the first folder of the database.
SearchIndexOneFolder(heap, obj, folder_id, q, k) ==
    LET local_k == Min(k, Len(obj.ix))
    IN IF local_k = 0 THEN heap
       ELSE HeapOfferAll(heap, IndexSearch(obj.ix, q, local_k), 1, k)

\* Lines 253-264: the loaded index searched and its candidates offered to
\* the heap; an empty index contributes nothing.
SearchIndex(heap, obj, folder_id, q, k) ==
    LET local_k == Min(k, Len(obj.ix))
    IN IF local_k = 0 THEN heap
       ELSE HeapOfferAll(heap, IndexSearch(obj.ix, q, local_k), folder_id, k)

Used(folder_id, key, obj) ==
    [fid |-> folder_id, key |-> key, ix |-> obj.ix, ver |-> obj.ver, src |-> obj.src]

\* The loop body raising for a folder without owner or artifact instead of
\* skipping it.
VisitFolderRaise(S, folder_id, omap, q, k, dsk) ==
    LET owner == omap[folder_id]
        key == GetFolderPath(owner, folder_id)
    IN IF S.status # "ok" THEN S
       ELSE IF owner = NoOwner THEN [S EXCEPT !.status = "InvalidOwnerMapping"]
       ELSE IF dsk[key].st = "none" THEN [S EXCEPT !.status = "NotFound"]
       ELSE IF S.map[key].has
       THEN [S EXCEPT !.order = CacheTouch(S.order, key),
                      !.heap = SearchIndex(S.heap, S.map[key], folder_id, q, k),
                      !.used = Append(S.used, Used(folder_id, key, S.map[key]))]
       ELSE LET obj == IndexObj(dsk[key].ix, dsk[key].ver, key)
                c == CacheInsert(S.map, S.order, key, obj)
            IN [S EXCEPT !.map = c.map, !.order = c.order,
                         !.heap = SearchIndex(S.heap, obj, folder_id, q, k),
                         !.used = Append(S.used, Used(folder_id, key, obj))]

\* One iteration of the loop at lines 235-264 run without interruption.
\* S = [map, order, heap, used, status].
VisitFolder(S, folder_id, omap, q, k, dsk) ==
    LET owner == omap[folder_id]
        key == GetFolderPath(owner, folder_id)
    IN IF S.status # "ok" THEN S
       ELSE IF owner = NoOwner THEN S
       ELSE IF dsk[key].st = "none" THEN S
       ELSE IF S.map[key].has
       THEN [S EXCEPT !.order = CacheTouch(S.order, key),
                      !.heap = SearchIndex(S.heap, S.map[key], folder_id, q, k),
                      !.used = Append(S.used, Used(folder_id, key, S.map[key]))]
       ELSE IF dsk[key].st = "partial" THEN [S EXCEPT !.status = "ReadError"]
       ELSE LET obj == IndexObj(dsk[key].ix, dsk[key].ver, key)
                c == CacheInsert(S.map, S.order, key, obj)
            IN [S EXCEPT !.map = c.map, !.order = c.order,
                         !.heap = SearchIndex(S.heap, obj, folder_id, q, k),
                         !.used = Append(S.used, Used(folder_id, key, obj))]

RECURSIVE VisitAll(_, _, _, _, _, _)
VisitAll(S, folder_ids, omap, q, k, dsk) ==
    IF folder_ids = <<>> THEN S
    ELSE VisitAll(VisitFolder(S, Head(folder_ids), omap, q, k, dsk),
                  Tail(folder_ids), omap, q, k, dsk)

\* The earlier behaviour: an error when no vector was found anywhere.
SearchWithOwnershipRaiseEmpty(map, order, dsk, folder_ids, omap, query, k) ==
    LET S0 == [map |-> map, order |-> order, heap |-> <<>>, used |-> <<>>, status |-> "ok"]
        S == VisitAll(S0, folder_ids, omap, Normalize(query), k, dsk)
    IN [map |-> S.map, order |-> S.order,
        status |-> IF S.heap = <<>> THEN "NoVectors" ELSE S.status,
        used |-> S.used,
        result |-> IF S.status = "ok" THEN NLargest(k, S.heap) ELSE <<>>]

\* search_with_ownership run without interruption: the state it leaves and
\* the (distance, image_id, folder_id) list it returns.
SearchWithOwnership(map, order, dsk, folder_ids, omap, query, k) ==
    LET S0 == [map |-> map, order |-> order, heap |-> <<>>, used |-> <<>>, status |-> "ok"]
        S == VisitAll(S0, folder_ids, omap, Normalize(query), k, dsk)
    IN [map |-> S.map, order |-> S.order, status |-> S.status, used |-> S.used,
        result |-> IF S.status = "ok" THEN NLargest(k, S.heap) ELSE <<>>]


\* ------------------------------------------------- handlers, one at a time
\* What a finished request leaves in prev when the next one starts: the
\* pairs a successful add or add_batch stored, and whether its invalidation
\* found the scope cached.
PrevOf(r, o) ==
    IF r.op \in {"add", "add_batch"} /\ o.status = "ok" /\ r.vecs # <<>>
    THEN [op |-> r.op, key |-> r.key, added |-> ZipEntries(r.vecs, r.ids), inval |-> o.inval]
    ELSE NoPrev

Idle(t) == pc[t] \in {"idle", "done"}

\* A request of thread t runs from start to return with no other request
\* interleaved: r is the request, o what it returns.
Returns(t, r, o) ==
    /\ Idle(t)
    /\ pc' = [pc EXCEPT ![t] = "done"]
    /\ req' = [req EXCEPT ![t] = r]
    /\ out' = [out EXCEPT ![t] = o]
    /\ prev' = [prev EXCEPT ![t] = PrevOf(req[t], out[t])]
    /\ nops' = nops + 1
    /\ UNCHANGED <<loc, db>>

\* create_faiss_index, lines 118-124: an empty index written at the path,
\* whatever is there; the cache is not touched.
CreateFaissIndex(t, key) ==
    /\ Returns(t, [NoReq EXCEPT !.op = "create", !.key = key],
                  [NoOut EXCEPT !.status = "ok", !.wver = disk[key].ver + 1])
    /\ disk' = [disk EXCEPT ![key] = File(EmptyIndex, @.ver + 1)]
    /\ UNCHANGED <<index_cache, cache_access_order, recency, done>>

\* The checks of add_vectors_batch without the early return for an empty
\* batch.
AddPrecheckNoEmpty(op, dsk, key, vecs, ids) ==
    IF op = "add_batch" /\ Len(vecs) # Len(ids) THEN "LengthMismatch"
    ELSE IF dsk[key].st = "none" THEN "NotFound"
    ELSE "go"

\* The checks of add_vectors_batch with the existence test first.
AddPrecheckExistsFirst(op, dsk, key, vecs, ids) ==
    IF dsk[key].st = "none" THEN "NotFound"
    ELSE IF op = "add_batch" /\ Len(vecs) # Len(ids) THEN "LengthMismatch"
    ELSE IF op = "add_batch" /\ Len(vecs) = 0 THEN "empty"
    ELSE "go"

\* add_vector_to_faiss (op = "add", one vector and one id) and
\* add_vectors_batch (op = "add_batch"): the outcome before any I/O.
AddPrecheck(op, dsk, key, vecs, ids) ==
    IF op = "add_batch" /\ Len(vecs) # Len(ids) THEN "LengthMismatch"
    ELSE IF op = "add_batch" /\ Len(vecs) = 0 THEN "empty"
    ELSE IF dsk[key].st = "none" THEN "NotFound"
    ELSE "go"

AddRequest(op, key, vecs, ids) ==
    [NoReq EXCEPT !.op = op, !.key = key, !.vecs = vecs, !.ids = ids]

\* add_vector_to_faiss, lines 137-153, and add_vectors_batch, lines 168-194:
\* read, append the normalized pairs, write, invalidate.
AddVectors(t, op, key, vecs, ids) ==
    LET pre == AddPrecheck(op, disk, key, vecs, ids)
        c == InvalidateCache(index_cache, cache_access_order, key)
    IN IF pre = "go"
       THEN /\ disk[key].st = "ok"
            /\ Len(disk[key].ix) + Len(vecs) <= MaxLen
            /\ Returns(t, AddRequest(op, key, vecs, ids),
                          [NoOut EXCEPT !.status = "ok", !.inval = index_cache[key].has,
                                        !.wver = disk[key].ver + 1])
            /\ disk' = [disk EXCEPT ![key] = File(AddWithIds(@.ix, vecs, ids), @.ver + 1)]
            /\ index_cache' = c.map
            /\ cache_access_order' = c.order
            /\ recency' = KeepCached(recency, c.map)
            /\ done' = [done EXCEPT ![key] = disk[key].ver + 1]
       ELSE /\ Returns(t, AddRequest(op, key, vecs, ids),
                          [NoOut EXCEPT !.status = IF pre = "empty" THEN "ok" ELSE pre])
            /\ UNCHANGED <<disk, index_cache, cache_access_order, recency, done>>

\* A delete that answers success when there is nothing to delete.
DeleteFaissIndexQuiet(t, key) ==
    LET c == InvalidateCache(index_cache, cache_access_order, key)
    IN /\ Returns(t, [NoReq EXCEPT !.op = "delete", !.key = key],
                     [NoOut EXCEPT !.status = "ok", !.inval = index_cache[key].has,
                                   !.wver = disk[key].ver + 1])
       /\ index_cache' = c.map
       /\ cache_access_order' = c.order
       /\ recency' = KeepCached(recency, c.map)
       /\ disk' = [disk EXCEPT ![key] = NoFile(@.ver + 1)]
       /\ done' = [done EXCEPT ![key] = disk[key].ver + 1]

\* delete_faiss_index, lines 283-293: invalidate, then remove the file or
\* raise FileNotFoundError.
DeleteFaissIndex(t, key) ==
    LET c == InvalidateCache(index_cache, cache_access_order, key)
        there == disk[key].st # "none"
    IN /\ Returns(t, [NoReq EXCEPT !.op = "delete", !.key = key],
                     [NoOut EXCEPT !.status = IF there THEN "ok" ELSE "NotFound",
                                   !.inval = index_cache[key].has,
                                   !.wver = IF there THEN disk[key].ver + 1 ELSE 0])
       /\ index_cache' = c.map
       /\ cache_access_order' = c.order
       /\ recency' = KeepCached(recency, c.map)
       /\ disk' = IF there THEN [disk EXCEPT ![key] = NoFile(@.ver + 1)] ELSE disk
       /\ done' = IF there THEN [done EXCEPT ![key] = disk[key].ver + 1] ELSE done

SearchRequest(folder_ids, omap, query, k) ==
    [NoReq EXCEPT !.op = "search", !.fids = folder_ids, !.omap = omap, !.q = query, !.k = k]

\* A search whose evictions write the evicted index back to its file.
SearchPersistEvicted(t, folder_ids, omap, query, k) ==
    LET r == SearchWithOwnership(index_cache, cache_access_order, disk,
                                 folder_ids, omap, query, k)
        evicted == CachedPaths(index_cache) \ CachedPaths(r.map)
    IN /\ Returns(t, SearchRequest(folder_ids, omap, query, k),
                     [NoOut EXCEPT !.status = r.status, !.result = r.result, !.used = r.used,
                                   !.evicted = evicted])
       /\ index_cache' = r.map
       /\ cache_access_order' = r.order
       /\ recency' = Recency(recency, [i \in DOMAIN r.used |-> r.used[i].key], r.map)
       /\ disk' = [p \in AllPaths |->
                     IF p \in evicted THEN File(index_cache[p].ix, disk[p].ver + 1)
                     ELSE disk[p]]
       /\ UNCHANGED done

\* search_images of the service (app.py lines 146-174) around
\* search_with_ownership: the triples returned, or the error.
Search(t, folder_ids, omap, query, k) ==
    LET r == SearchWithOwnership(index_cache, cache_access_order, disk,
                                 folder_ids, omap, query, k)
    IN /\ Returns(t, SearchRequest(folder_ids, omap, query, k),
                     [NoOut EXCEPT !.status = r.status, !.result = r.result, !.used = r.used,
                                   !.evicted = CachedPaths(index_cache) \ CachedPaths(r.map)])
       /\ index_cache' = r.map
       /\ cache_access_order' = r.order
       /\ recency' = Recency(recency, [i \in DOMAIN r.used |-> r.used[i].key], r.map)
       /\ UNCHANGED <<disk, done>>

\* ------------------------------------------------- inputs
SeqsUpTo(S, n) == UNION {[1..m -> S] : m \in 0..n}

\* Longest folder list of a search request.
MaxFids == 2

OwnerMaps == [Folders -> Owners \cup {NoOwner}]
Queries == {<<6, 8>>}
TopKs == 1..KMax

\* ------------------------------------------------- one search, any store
\* Indexes as create followed by add_batch leaves them, ids by position.
StoredIndexes ==
    {[i \in DOMAIN vs |-> Entry(i, Normalize(vs[i]))] : vs \in SeqsUpTo(Vecs, MaxLen)}

Artifacts == {NoFile(0)} \cup {File(ix, 1) : ix \in StoredIndexes}

SearchInit ==
    /\ \E a \in Artifacts, b \in Artifacts, c \in {NoFile(0), File(<<Entry(3, Normalize(<<0, 10>>))>>, 1)} :
         disk = [p \in AllPaths |->
                    IF p = <<1, 1>> THEN a
                    ELSE IF p = <<2, 2>> THEN b
                    ELSE IF p = <<1, 2>> THEN c
                    ELSE NoFile(0)]
    /\ index_cache = [p \in AllPaths |-> NoIndex]
    /\ cache_access_order = <<>>
    /\ recency = <<>>
    /\ pc = [t \in Threads |-> "idle"]
    /\ req = [t \in Threads |-> NoReq]
    /\ loc = [t \in Threads |-> NoLoc]
    /\ out = [t \in Threads |-> NoOut]
    /\ prev = [t \in Threads |-> NoPrev]
    /\ done = [p \in AllPaths |-> 0]
    /\ nops = 0
    /\ db = NoDb

FirstSearch ==
    /\ nops = 0
    /\ \E folder_ids \in SeqsUpTo(Folders, MaxFids), omap \in OwnerMaps,
          query \in Queries, k \in TopKs :
         Search(1, folder_ids, omap, query, k)

SearchNext == FirstSearch

SpecSearch == SearchInit /\ [][SearchNext]_vars


\* ------------------------------------------------- ingest through the endpoint
\* An image file is given by the embedding the provider returns for it;
\* NoEmbedding: loading or embedding the file raises.
NoEmbedding == <<>>

\* A provider that leaves out the files it fails on.
EmbedImageFilesBatchSkip(files, ids) ==
    LET good == {i \in DOMAIN files : files[i] # NoEmbedding}
        Nth(n) == CHOOSE i \in good : Cardinality({j \in good : j < i}) = n - 1
    IN [ok |-> TRUE,
        vecs |-> [n \in 1..Cardinality(good) |-> files[Nth(n)]],
        ids |-> [n \in 1..Cardinality(good) |-> ids[Nth(n)]]]

\* embed_images, lines 187-193: the ids of the request and the embeddings
\* of all its files, or the failure of the first file that raises.
EmbedImageFilesBatch(files, ids) ==
    IF \E i \in DOMAIN files : files[i] = NoEmbedding
    THEN [ok |-> FALSE, vecs |-> <<>>, ids |-> <<>>]
    ELSE [ok |-> TRUE, vecs |-> files, ids |-> ids]

\* embed_images (app.py lines 176-213) run without interruption.
EmbedImages(t, key, files, ids) ==
    LET e == EmbedImageFilesBatch(files, ids)
        pre == AddPrecheck("add_batch", disk, key, e.vecs, e.ids)
        c == InvalidateCache(index_cache, cache_access_order, key)
        r == [NoReq EXCEPT !.op = "embed_images", !.key = key, !.vecs = files, !.ids = ids]
    IN IF ~e.ok
       THEN /\ Returns(t, r, [NoOut EXCEPT !.status = "EmbeddingFailed"])
            /\ UNCHANGED <<disk, index_cache, cache_access_order, recency, done>>
       ELSE IF pre = "go"
       THEN /\ disk[key].st = "ok"
            /\ Len(disk[key].ix) + Len(e.vecs) <= MaxLen
            /\ Returns(t, r, [NoOut EXCEPT !.status = "ok", !.inval = index_cache[key].has,
                                           !.wver = disk[key].ver + 1])
            /\ disk' = [disk EXCEPT ![key] = File(AddWithIds(@.ix, e.vecs, e.ids), @.ver + 1)]
            /\ index_cache' = c.map
            /\ cache_access_order' = c.order
            /\ recency' = KeepCached(recency, c.map)
            /\ done' = [done EXCEPT ![key] = disk[key].ver + 1]
       ELSE /\ Returns(t, r, [NoOut EXCEPT !.status = IF pre = "empty" THEN "ok" ELSE pre])
            /\ UNCHANGED <<disk, index_cache, cache_access_order, recency, done>>

\* The files of the ingest requests: the first, the second or the only
\* one failing, and one that embeds.
IngestInputs ==
    {<<<<<<3, 4>>, NoEmbedding>>, <<1, 2>>>>,
     <<<<NoEmbedding, <<3, 4>>>>, <<1, 2>>>>,
     <<<<NoEmbedding>>, <<1>>>>,
     <<<<<<8, 6>>>>, <<2>>>>}

\* ------------------------------------------------- requests one at a time
\* The scopes the lifecycle requests name.
SeqPaths == {<<1, 1>>, <<2, 2>>}

\* (vectors, ids) of an add_batch request: none, one pair, two pairs, two
\* pairs with one id, and one id short.
BatchInputs ==
    {<<<<>>, <<>>>>,
     <<<<<<3, 4>>>>, <<1>>>>,
     <<<<<<8, 6>>, <<3, 4>>>>, <<1, 2>>>>,
     <<<<<<8, 6>>, <<3, 4>>>>, <<2, 2>>>>,
     <<<<<<8, 6>>, <<3, 4>>>>, <<1>>>>}

\* Folder lists of the lifecycle searches.
SeqFolderLists == {<<>>, <<1>>, <<2>>, <<1, 2>>, <<1, 1>>}

\* Owner maps of the lifecycle searches: every folder under its owner, and
\* folder 2 without an owner.
SeqOwnerMaps ==
    {[f \in Folders |-> f],
     [f \in Folders |-> IF f = 1 THEN 1 ELSE NoOwner]}

CanStart == nops < MaxOps

SeqCreate == CanStart /\ \E key \in SeqPaths : CreateFaissIndex(1, key)

SeqAdd ==
    /\ CanStart
    /\ \E key \in SeqPaths, v \in Vecs, id \in Ids : AddVectors(1, "add", key, <<v>>, <<id>>)

SeqAddBatch ==
    /\ CanStart
    /\ \E key \in SeqPaths, b \in BatchInputs : AddVectors(1, "add_batch", key, b[1], b[2])

SeqDelete == CanStart /\ \E key \in SeqPaths : DeleteFaissIndex(1, key)

SeqSearch ==
    /\ CanStart
    /\ \E folder_ids \in SeqFolderLists, omap \in SeqOwnerMaps,
          query \in Queries, k \in TopKs :
         Search(1, folder_ids, omap, query, k)

SeqEmbedImages ==
    /\ CanStart
    /\ \E key \in SeqPaths, b \in IngestInputs : EmbedImages(1, key, b[1], b[2])

SeqNext == SeqCreate \/ SeqAdd \/ SeqAddBatch \/ SeqDelete \/ SeqSearch \/ SeqEmbedImages

SpecSeq == Init /\ [][SeqNext]_vars

\* ------------------------------------------------- concurrent requests
\* The endpoints are synchronous functions, which the server runs on worker
\* threads: the handlers of two requests interleave between their cache
\* and file operations.  A thread's steps:
\*   create:  StartCreate (file opened, truncated) -> FinishCreate
\*   add:     StartAdd (checks) -> AddRead -> AddWrite (file opened,
\*            truncated) -> AddFlush (file complete) -> AddInvalidate
\*   delete:  StartDelete (invalidate) -> DeleteRemove
\*   search:  StartSearch -> per folder SearchVisit (checks, cache hit)
\*            [-> SearchRead -> SearchInsert] -> ... -> SearchVisit (return)

Max(a, b) == IF a > b THEN a ELSE b

Adding(t) == pc[t] \in {"add_read", "add_write", "add_flush", "add_inval"}

\* What a request finds when it starts: the artifact and the cache entry of
\* its scope, and the threads that are in the middle of a request.
Snapshot(t, l, key) ==
    LET busy == {u \in Threads \ {t} : ~Idle(u)}
    IN IF key \in AllPaths
       THEN [l EXCEPT !.ver0 = disk[key].ver, !.ix0 = disk[key].ix,
                      !.st0 = disk[key].st, !.cached0 = index_cache[key],
                      !.busy0 = busy]
       ELSE [l EXCEPT !.busy0 = busy]

Begin(t, r, l, where) ==
    /\ Idle(t)
    /\ nops < MaxOps
    /\ nops' = nops + 1
    /\ UNCHANGED db
    /\ pc' = [pc EXCEPT ![t] = where]
    /\ req' = [req EXCEPT ![t] = r]
    /\ loc' = [u \in Threads |-> IF u = t THEN Snapshot(t, l, r.key) ELSE loc[u]]
    /\ out' = [out EXCEPT ![t] = NoOut]
    /\ prev' = [prev EXCEPT ![t] = NoPrev]

Finish(t, o) ==
    /\ pc' = [pc EXCEPT ![t] = "done"]
    /\ out' = [out EXCEPT ![t] = o]
    /\ UNCHANGED <<req, prev, nops, db>>

\* create_faiss_index, line 124: faiss.write_index opens the path for
\* writing, which truncates what is there.
StartCreate(t, key) ==
    /\ Begin(t, [NoReq EXCEPT !.op = "create", !.key = key], NoLoc, "create_flush")
    /\ disk' = [disk EXCEPT ![key] = PartialFile(@.ver)]
    /\ UNCHANGED <<index_cache, cache_access_order, recency, done>>

\* create_faiss_index, line 124: the empty index is written out in full.
FinishCreate(t) ==
    /\ pc[t] = "create_flush"
    /\ disk' = [disk EXCEPT ![req[t].key] = File(EmptyIndex, @.ver + 1)]
    /\ Finish(t, [NoOut EXCEPT !.status = "ok", !.wver = disk[req[t].key].ver + 1])
    /\ UNCHANGED <<index_cache, cache_access_order, recency, loc, done>>

\* add_vector_to_faiss, lines 137-139, add_vectors_batch, lines 168-177.
\* An add that starts while another add of the scope is running overlaps it.
StartAdd(t, op, key, vecs, ids) ==
    LET pre == AddPrecheck(op, disk, key, vecs, ids)
        over == {u \in Threads \ {t} : Adding(u) /\ req[u].key = key}
    IN /\ Idle(t)
       /\ nops < MaxOps
       /\ nops' = nops + 1
       /\ UNCHANGED db
       /\ req' = [req EXCEPT ![t] = AddRequest(op, key, vecs, ids)]
       /\ prev' = [prev EXCEPT ![t] = NoPrev]
       /\ IF pre = "go"
          THEN /\ pc' = [pc EXCEPT ![t] = "add_read"]
               /\ out' = [out EXCEPT ![t] = NoOut]
               /\ loc' = [u \in Threads |->
                            IF u = t
                            THEN [Snapshot(t, NoLoc, key) EXCEPT !.overlap = over # {}]
                            ELSE IF u \in over THEN [loc[u] EXCEPT !.overlap = TRUE]
                            ELSE loc[u]]
          ELSE /\ pc' = [pc EXCEPT ![t] = "done"]
               /\ out' = [out EXCEPT ![t] =
                            [NoOut EXCEPT !.status = IF pre = "empty" THEN "ok" ELSE pre]]
               /\ loc' = [loc EXCEPT ![t] = Snapshot(t, NoLoc, key)]
       /\ UNCHANGED <<disk, index_cache, cache_access_order, recency, done>>

\* Lines 142 and 180: faiss.read_index.  A file that is gone or not yet
\* written out in full makes it raise.
AddRead(t) ==
    LET key == req[t].key
    IN /\ pc[t] = "add_read"
       /\ Len(disk[key].ix) + Len(req[t].vecs) <= MaxLen
       /\ IF disk[key].st = "ok"
          THEN /\ loc' = [loc EXCEPT ![t].index = IndexObj(disk[key].ix, disk[key].ver, key)]
               /\ pc' = [pc EXCEPT ![t] = "add_write"]
               /\ UNCHANGED <<req, out, prev, nops, db>>
          ELSE /\ Finish(t, [NoOut EXCEPT !.status =
                               IF disk[key].st = "partial" THEN "CorruptIndex" ELSE "ReadFailed"])
               /\ UNCHANGED loc
       /\ UNCHANGED <<disk, index_cache, cache_access_order, recency, done>>

\* Lines 150 and 191: faiss.write_index opens the path, truncating it.
AddWrite(t) ==
    /\ pc[t] = "add_write"
    /\ disk' = [disk EXCEPT ![req[t].key] = PartialFile(@.ver)]
    /\ pc' = [pc EXCEPT ![t] = "add_flush"]
    /\ UNCHANGED <<index_cache, cache_access_order, recency, req, loc, out, prev, done, nops, db>>

\* Lines 150 and 191: the index read, with the new pairs, written in full.
AddFlush(t) ==
    /\ pc[t] = "add_flush"
    /\ disk' = [disk EXCEPT ![req[t].key] =
                  File(AddWithIds(loc[t].index.ix, req[t].vecs, req[t].ids), @.ver + 1)]
    /\ loc' = [loc EXCEPT ![t].wver = disk[req[t].key].ver + 1]
    /\ pc' = [pc EXCEPT ![t] = "add_inval"]
    /\ UNCHANGED <<index_cache, cache_access_order, recency, req, out, prev, done, nops, db>>

\* Lines 153 and 194: the cache entry dropped; the request returns.
AddInvalidate(t) ==
    LET key == req[t].key
        c == InvalidateCache(index_cache, cache_access_order, key)
    IN /\ pc[t] = "add_inval"
       /\ index_cache' = c.map
       /\ cache_access_order' = c.order
       /\ recency' = KeepCached(recency, c.map)
       /\ done' = [done EXCEPT ![key] = Max(@, loc[t].wver)]
       /\ Finish(t, [NoOut EXCEPT !.status = "ok", !.inval = index_cache[key].has,
                                  !.wver = loc[t].wver])
       /\ UNCHANGED <<disk, loc>>

\* delete_faiss_index, line 284.
StartDelete(t, key) ==
    LET c == InvalidateCache(index_cache, cache_access_order, key)
    IN /\ Begin(t, [NoReq EXCEPT !.op = "delete", !.key = key], NoLoc, "del_remove")
       /\ index_cache' = c.map
       /\ cache_access_order' = c.order
       /\ recency' = KeepCached(recency, c.map)
       /\ UNCHANGED <<disk, done>>

\* delete_faiss_index, lines 286-293.
DeleteRemove(t) ==
    LET key == req[t].key
        there == disk[key].st # "none"
    IN /\ pc[t] = "del_remove"
       /\ disk' = IF there THEN [disk EXCEPT ![key] = NoFile(@.ver + 1)] ELSE disk
       /\ done' = IF there THEN [done EXCEPT ![key] = Max(@, disk[key].ver + 1)] ELSE done
       /\ Finish(t, [NoOut EXCEPT !.status = IF there THEN "ok" ELSE "NotFound",
                                  !.wver = IF there THEN disk[key].ver + 1 ELSE 0])
       /\ UNCHANGED <<index_cache, cache_access_order, recency, loc>>

\* search_with_ownership, lines 225-233.  done0: the versions whose
\* mutations had returned when the search started.
StartSearch(t, folder_ids, omap, query, k) ==
    /\ Begin(t, SearchRequest(folder_ids, omap, query, k),
                [NoLoc EXCEPT !.rest = folder_ids, !.done0 = done], "s_visit")
    /\ UNCHANGED <<disk, index_cache, cache_access_order, recency, done>>

\* Lines 253-264 on the index just obtained for the folder at the head of
\* rest; the search has used a stale index if its version is older than a
\* mutation that had returned before the search started.
UseIndex(l, obj, folder_id, key, q, k) ==
    [l EXCEPT !.heap = SearchIndex(l.heap, obj, folder_id, q, k),
              !.used = Append(l.used, Used(folder_id, key, obj)),
              !.stale = l.stale \/ obj.ver < l.done0[key],
              !.rest = Tail(l.rest)]

\* Lines 235-251 and 74-84 for the next folder, or lines 267-273 when none
\* is left.
SearchVisit(t) ==
    LET l == loc[t]
        r == req[t]
        f == Head(l.rest)
        key == GetFolderPath(r.omap[f], f)
    IN /\ pc[t] = "s_visit"
       /\ IF l.rest = <<>>
          THEN /\ Finish(t, [NoOut EXCEPT !.status = "ok", !.result = NLargest(r.k, l.heap),
                                          !.used = l.used])
               /\ UNCHANGED <<loc, cache_access_order>>
          ELSE IF r.omap[f] = NoOwner \/ disk[key].st = "none"
          THEN /\ loc' = [loc EXCEPT ![t].rest = Tail(l.rest)]
               /\ UNCHANGED <<pc, req, out, prev, nops, db, cache_access_order>>
          ELSE IF index_cache[key].has
          THEN IF InList(cache_access_order, key)
               THEN /\ cache_access_order' = CacheTouch(cache_access_order, key)
                    /\ loc' = [loc EXCEPT ![t] =
                                 UseIndex(l, index_cache[key], f, key, Normalize(r.q), r.k)]
                    /\ UNCHANGED <<pc, req, out, prev, nops, db>>
               ELSE /\ Finish(t, [NoOut EXCEPT !.status = "ValueError"])
                    /\ UNCHANGED <<loc, cache_access_order>>
          ELSE /\ loc' = [loc EXCEPT ![t].fid = f, ![t].key = key]
               /\ pc' = [pc EXCEPT ![t] = "s_read"]
               /\ UNCHANGED <<req, out, prev, nops, db, cache_access_order>>
       /\ recency' = IF /\ l.rest # <<>>
                        /\ r.omap[f] # NoOwner
                        /\ disk[key].st # "none"
                        /\ index_cache[key].has
                     THEN TouchAll(recency, <<key>>)
                     ELSE recency
       /\ UNCHANGED <<disk, index_cache, done>>

\* _load_index, line 86: faiss.read_index on a cache miss.
SearchRead(t) ==
    LET key == loc[t].key
    IN /\ pc[t] = "s_read"
       /\ IF disk[key].st = "ok"
          THEN /\ loc' = [loc EXCEPT ![t].index = IndexObj(disk[key].ix, disk[key].ver, key)]
               /\ pc' = [pc EXCEPT ![t] = "s_insert"]
               /\ UNCHANGED <<req, out, prev, nops, db>>
          ELSE /\ Finish(t, [NoOut EXCEPT !.status =
                               IF disk[key].st = "partial" THEN "CorruptIndex" ELSE "ReadFailed"])
               /\ UNCHANGED loc
       /\ UNCHANGED <<disk, index_cache, cache_access_order, recency, done>>

\* _load_index, lines 89-99, then lines 253-264.  Evicting a key that is
\* no longer in the map raises KeyError.
SearchInsert(t) ==
    LET l == loc[t]
        r == req[t]
        c == CacheInsert(index_cache, cache_access_order, l.key, l.index)
        full == Cardinality(CachedPaths(index_cache) \cup {l.key}) > CacheSize
        oldest == Head(Append(cache_access_order, l.key))
        gone == full /\ oldest # l.key /\ ~index_cache[oldest].has
    IN /\ pc[t] = "s_insert"
       /\ index_cache' = c.map
       /\ cache_access_order' = c.order
       /\ recency' = Recency(recency, <<l.key>>, c.map)
       /\ IF gone
          THEN /\ Finish(t, [NoOut EXCEPT !.status = "KeyError"])
               /\ UNCHANGED loc
          ELSE /\ loc' = [loc EXCEPT ![t] =
                            UseIndex(l, l.index, l.fid, l.key, Normalize(r.q), r.k)]
               /\ pc' = [pc EXCEPT ![t] = "s_visit"]
               /\ UNCHANGED <<req, out, prev, nops, db>>
       /\ UNCHANGED <<disk, done>>

\* The scope and the requests of the concurrent runs.
ConcPaths == {<<1, 1>>}
ConcBatches == {<<<<<<8, 6>>, <<3, 4>>>>, <<1, 2>>>>}

Next ==
    \E t \in Threads :
        \/ \E key \in ConcPaths : StartCreate(t, key)
        \/ FinishCreate(t)
        \/ \E key \in ConcPaths, id \in Ids : StartAdd(t, "add", key, <<<<3, 4>>>>, <<id>>)
        \/ \E key \in ConcPaths, b \in ConcBatches : StartAdd(t, "add_batch", key, b[1], b[2])
        \/ AddRead(t)
        \/ AddWrite(t)
        \/ AddFlush(t)
        \/ AddInvalidate(t)
        \/ \E key \in ConcPaths : StartDelete(t, key)
        \/ DeleteRemove(t)
        \/ StartSearch(t, <<1>>, [f \in Folders |-> f], <<6, 8>>, 1)
        \/ SearchVisit(t)
        \/ SearchRead(t)
        \/ SearchInsert(t)

Spec == Init /\ [][Next]_vars

\* ------------------------------------------------- the merge, against the store
Finished(t, op) == pc[t] = "done" /\ req[t].op = op

\* A listed folder the search has an index for: a known owner and an
\* artifact under that owner.
Searchable(r, dsk, f) == r.omap[f] # NoOwner /\ dsk[<<r.omap[f], f>>].st = "ok"

\* The searchable positions of the request's folder list (a folder listed
\* twice is searched twice).
Visits(r, dsk) == {i \in DOMAIN r.fids : Searchable(r, dsk, r.fids[i])}

StoredAt(r, dsk, i) == dsk[<<r.omap[r.fids[i]], r.fids[i]>>].ix

\* Every (visit, stored position) the search could return.
Candidates(r, dsk) ==
    UNION {{<<i, j>> : j \in DOMAIN StoredAt(r, dsk, i)} : i \in Visits(r, dsk)}

ScoreAt(r, dsk, c) == Dot(Normalize(r.q), StoredAt(r, dsk, c[1])[c[2]].vec)

CountIn(seq, x) == Cardinality({i \in DOMAIN seq : seq[i] = x})

Scores(result) == [i \in DOMAIN result |-> result[i][1]]

\* scores is the first k of all candidate scores sorted in descending
\* order: non-increasing, of the right length, drawn from the candidates,
\* and no candidate left out beats one that was taken.
IsTopK(scores, r, dsk) ==
    LET cands == Candidates(r, dsk)
        all == {ScoreAt(r, dsk, c) : c \in cands}
        have(x) == Cardinality({c \in cands : ScoreAt(r, dsk, c) = x})
    IN /\ Len(scores) = Min(r.k, Cardinality(cands))
       /\ \A i \in 1..Len(scores) - 1 : scores[i] >= scores[i + 1]
       /\ \A i \in DOMAIN scores : scores[i] \in all
       /\ \A x \in all :
            /\ CountIn(scores, x) <= have(x)
            /\ CountIn(scores, x) < have(x) => \A i \in DOMAIN scores : scores[i] >= x

\* C5: the scores a federated search returns are the first k of all the
\* candidates of the searched scopes sorted by descending score, and so in
\* non-increasing order.
C5_MergedTopK ==
    \A t \in Threads :
        Finished(t, "search") =>
            /\ out[t].status = "ok"
            /\ IsTopK(Scores(out[t].result), req[t], disk)

\* Two searched scopes hold more than k vectors and the best one is not in
\* the scope searched first.
C5_Witness ==
    \E t \in Threads :
        /\ Finished(t, "search")
        /\ Cardinality(Visits(req[t], disk)) = 2
        /\ Cardinality(Candidates(req[t], disk)) > req[t].k
        /\ req[t].k = 2
        /\ out[t].result # <<>>
        /\ out[t].result[1][3] # req[t].fids[1]
        /\ out[t].result[1][1] > out[t].result[2][1]

\* Vectors stored in the scopes the search visits, a scope counted once
\* for each time it is listed.
TotalStored(r, dsk) == Cardinality(Candidates(r, dsk))

C9_OwnerNamespace ==
    \A t \in Threads :
        Finished(t, "search") =>
            LET r == req[t]
                u == out[t].used
                visits == Visits(r, disk)
            IN /\ Len(u) = Cardinality(visits)
               /\ \A n \in DOMAIN u :
                    \E i \in visits :
                        /\ Cardinality({j \in visits : j < i}) = n - 1
                        /\ u[n].fid = r.fids[i]
                        /\ u[n].src = <<r.omap[r.fids[i]], r.fids[i]>>
                        /\ u[n].ix = disk[<<r.omap[r.fids[i]], r.fids[i]>>].ix
               /\ \A c \in Candidates(r, disk) :
                    /\ out[t].result # <<>>
                    /\ out[t].result[1][1] >= ScoreAt(r, disk, c)

\* Folder 1 of owner 1 and folder 2 of owner 2, one vector each, the one of
\* owner 2 closer to the query: with k = 1 the result is the pair of owner 2.
C9_Witness ==
    \E t \in Threads :
        /\ Finished(t, "search")
        /\ req[t].fids = <<1, 2>>
        /\ req[t].omap = [f \in Folders |-> f]
        /\ req[t].k = 1
        /\ Len(disk[<<1, 1>>].ix) = 1
        /\ Len(disk[<<2, 2>>].ix) = 1
        /\ Dot(Normalize(req[t].q), disk[<<1, 1>>].ix[1].vec)
             < Dot(Normalize(req[t].q), disk[<<2, 2>>].ix[1].vec)
        /\ out[t].result = <<<<Dot(Normalize(req[t].q), disk[<<2, 2>>].ix[1].vec),
                               disk[<<2, 2>>].ix[1].id, 2>>>>


\* ------------------------------------------------- requests one at a time: claims
\* The step is thread t's request op, run from start to return.
Ran(t, op) == nops' = nops + 1 /\ pc'[t] = "done" /\ req'[t].op = op

Range(seq) == {seq[i] : i \in DOMAIN seq}

\* C4: a search that follows an add or add_batch, with nothing in between,
\* computes its result from an index of the scope that ends with the pairs
\* just added (the artifact as the add wrote it), whether or not the scope
\* was cached before the add.
C4_AddThenSearch ==
    \A t \in Threads :
        (Finished(t, "search") /\ prev[t].op \in {"add", "add_batch"}) =>
            /\ \A i \in DOMAIN req[t].fids :
                 <<req[t].omap[req[t].fids[i]], req[t].fids[i]>> = prev[t].key =>
                     \E n \in DOMAIN out[t].used : out[t].used[n].key = prev[t].key
            /\ \A n \in DOMAIN out[t].used :
                 out[t].used[n].key = prev[t].key =>
                     LET ix == out[t].used[n].ix
                         a == prev[t].added
                     IN /\ ix = disk[prev[t].key].ix
                        /\ Len(ix) >= Len(a)
                        /\ SubSeq(ix, Len(ix) - Len(a) + 1, Len(ix)) = a

\* The scope was cached when the add ran, and the search right after the
\* add returns the id just added.
C4_Witness ==
    \E t \in Threads :
        /\ Finished(t, "search")
        /\ prev[t].op = "add"
        /\ prev[t].inval
        /\ \E n \in DOMAIN out[t].used : out[t].used[n].key = prev[t].key
        /\ \E i \in DOMAIN out[t].result :
             /\ out[t].result[i][2] = prev[t].added[1].id
             /\ <<req[t].omap[out[t].result[i][3]], out[t].result[i][3]>> = prev[t].key

\* A listed folder is skipped: no owner in the map, or no artifact under
\* its owner.
Skipped(r, dsk, f) == r.omap[f] = NoOwner \/ dsk[<<r.omap[f], f>>].st = "none"

RECURSIVE Unskipped(_, _, _)
Unskipped(r, dsk, folder_ids) ==
    IF folder_ids = <<>> THEN <<>>
    ELSE IF Skipped(r, dsk, Head(folder_ids)) THEN Unskipped(r, dsk, Tail(folder_ids))
    ELSE <<Head(folder_ids)>> \o Unskipped(r, dsk, Tail(folder_ids))

\* C8: a search succeeds and returns exactly what the same search would
\* return with the folders that have no owner mapping or no artifact taken
\* out of the request, and leaves the cache as that search would.
C8_SkipMissing ==
    [][\A t \in Threads :
         Ran(t, "search") =>
            LET r == req'[t]
                w == SearchWithOwnership(index_cache, cache_access_order, disk,
                                         Unskipped(r, disk, r.fids), r.omap, r.q, r.k)
            IN /\ out'[t].status = "ok"
               /\ out'[t].result = w.result
               /\ index_cache' = w.map
               /\ cache_access_order' = w.order]_vars

\* A search lists a folder without artifact next to one that has results.
C8_Witness ==
    \E t \in Threads :
        /\ Finished(t, "search")
        /\ \E i \in DOMAIN req[t].fids :
             /\ req[t].omap[req[t].fids[i]] # NoOwner
             /\ disk[<<req[t].omap[req[t].fids[i]], req[t].fids[i]>>].st = "none"
        /\ out[t].status = "ok"
        /\ out[t].result # <<>>

\* C10: create on a scope whose artifact exists fails with AlreadyExists
\* and leaves the artifact, with its vectors, unchanged.
C10_CreateExisting ==
    [][\A t \in Threads :
         (Ran(t, "create") /\ disk[req'[t].key].st = "ok") =>
            /\ out'[t].status = "AlreadyExists"
            /\ disk'[req'[t].key].ix = disk[req'[t].key].ix]_vars

\* ------------------------------------------------- claims on concurrent requests
AddOps == {"add", "add_batch"}

\* C1: a search that starts after a mutation of a scope (add, add_batch,
\* delete) has invalidated the cache and returned never returns results
\* computed from a state of that scope's index older than the mutation.
C1_NoStaleSearch ==
    \A t \in Threads :
        pc[t] = "done" /\ req[t].op = "search" /\ out[t].status = "ok" => ~loc[t].stale

\* C2: when two adds of one scope overlap and both return success, the
\* scope's index afterwards holds every (id, vector) pair of both.
C2_NoLostVectors ==
    \A t \in Threads : \A u \in Threads \ {t} :
        (/\ pc[t] = "done" /\ pc[u] = "done"
         /\ req[t].op \in AddOps /\ req[u].op \in AddOps
         /\ req[t].key = req[u].key
         /\ out[t].status = "ok" /\ out[u].status = "ok"
         /\ loc[t].overlap /\ loc[u].overlap)
        => /\ disk[req[t].key].st = "ok"
           /\ Range(ZipEntries(req[t].vecs, req[t].ids)) \subseteq Range(disk[req[t].key].ix)

\* C3: no reader of a scope's artifact, a search loading it or an add
\* reading it, ever sees it partially written.
C3_AtomicWrites ==
    \A t \in Threads : out[t].status # "CorruptIndex"

\* ------------------------------------------------- claims on failed and empty calls
StoreUnchanged ==
    UNCHANGED <<disk, index_cache, cache_access_order>>

\* The request that has just run names a scope with no artifact and is an
\* add, an add_batch of one or more pairs (as many ids as vectors), or a
\* delete.
OnMissingScope ==
    /\ \/ Ran(1, "add")
       \/ Ran(1, "delete")
       \/ Ran(1, "add_batch") /\ Len(req'[1].vecs) = Len(req'[1].ids) /\ Len(req'[1].vecs) >= 1
    /\ disk[req'[1].key].st = "none"

\* C11: add, add_batch of one or more pairs, and delete on a scope with no
\* artifact fail with NotFound, create no artifact and leave the store
\* (artifacts and cache) as it was.
C11_MissingScope ==
    [][OnMissingScope => out'[1].status = "NotFound" /\ StoreUnchanged]_vars

C11_Witness ==
    /\ Finished(1, "add_batch")
    /\ out[1].status = "NotFound"
    /\ Len(req[1].vecs) = 2
    /\ disk[req[1].key].st = "none"
    /\ \E p \in AllPaths : disk[p].st = "ok" /\ disk[p].ix # <<>>

\* C12: add_batch with a different number of vectors and ids fails with
\* LengthMismatch and leaves the artifacts and the cache as they were.
C12_LengthMismatch ==
    [][Ran(1, "add_batch") /\ Len(req'[1].vecs) # Len(req'[1].ids)
         => out'[1].status = "LengthMismatch" /\ StoreUnchanged]_vars

\* A mismatched add_batch on a scope whose index is stored and cached.
C12_Witness ==
    /\ Finished(1, "add_batch")
    /\ Len(req[1].vecs) # Len(req[1].ids)
    /\ out[1].status = "LengthMismatch"
    /\ disk[req[1].key].st = "ok"
    /\ disk[req[1].key].ix # <<>>
    /\ index_cache[req[1].key].has

\* C13: add_batch with zero pairs returns without error and does nothing,
\* whether or not the scope has an artifact: artifacts and cache stay as
\* they were.
C13_EmptyBatch ==
    [][Ran(1, "add_batch") /\ req'[1].vecs = <<>> /\ req'[1].ids = <<>>
         => out'[1].status = "ok" /\ StoreUnchanged /\ UNCHANGED done]_vars

\* An empty add_batch that succeeded on a scope with no artifact, while
\* another scope is stored and cached.
C13_Witness ==
    /\ Finished(1, "add_batch")
    /\ req[1].vecs = <<>>
    /\ out[1].status = "ok"
    /\ disk[req[1].key].st = "none"
    /\ \E p \in AllPaths : disk[p].st = "ok" /\ index_cache[p].has

\* ------------------------------------------------- the backend's folder delete
NoUser == 0

\* check_folder_access: "owner", "shared" or "none".
CheckFolderAccess(d, user_id, folder_id) ==
    IF <<user_id, folder_id>> \in d.folders THEN "owner"
    ELSE IF /\ <<folder_id, user_id>> \in d.shares
            /\ \E o \in Owners : <<o, folder_id>> \in d.folders
    THEN "shared"
    ELSE "none"

\* delete_folder_by_id: the folder's image rows and its row; the shares of
\* the folder go with it (ON DELETE CASCADE).
DeleteFolderById(d, folder_id, user_id) ==
    [d EXCEPT !.images = {i \in @ : i[1] # folder_id},
              !.folders = @ \ {<<user_id, folder_id>>},
              !.shares = {s \in @ : s[1] # folder_id}]

\* remove_folder_share_for_user, as delete_folder calls it.
RemoveFolderShareForUser(d, folder_id, user_id) ==
    [d EXCEPT !.shares = @ \ {<<folder_id, user_id>>}]

\* delete_faiss_index as an operator on the service's state.
\* [map, order, disk, done, status].
DeleteIndex(map, order, dsk, dn, key) ==
    LET c == InvalidateCache(map, order, key)
        there == dsk[key].st # "none"
    IN [map |-> c.map, order |-> c.order,
        disk |-> IF there THEN [dsk EXCEPT ![key] = NoFile(@.ver + 1)] ELSE dsk,
        done |-> IF there THEN [dn EXCEPT ![key] = dsk[key].ver + 1] ELSE dn,
        status |-> IF there THEN "ok" ELSE "NotFound"]

\* A client whose delete_index lets the failure out.
ClientDeleteIndexRaises(B, up, key) ==
    LET r == DeleteIndex(B.map, B.order, B.disk, B.done, key)
    IN IF ~up THEN [B EXCEPT !.status = "500"]
       ELSE [B EXCEPT !.map = r.map, !.order = r.order, !.disk = r.disk, !.done = r.done,
                      !.status = IF r.status = "ok" THEN B.status ELSE "500",
                      !.index_deletes = Append(@, r.status)]

\* SearchServiceClient.delete_index around the delete-index endpoint: the
\* endpoint answers 200 whatever delete_faiss_index did, and the client
\* returns False, raising nothing, when the service cannot be reached.
\* B = [db, map, order, disk, done, status, deleted, unshared, index_deletes].
ClientDeleteIndex(B, up, key) ==
    LET r == DeleteIndex(B.map, B.order, B.disk, B.done, key)
    IN IF ~up THEN [B EXCEPT !.index_deletes = Append(@, "unreachable")]
       ELSE [B EXCEPT !.map = r.map, !.order = r.order, !.disk = r.disk, !.done = r.done,
                      !.index_deletes = Append(@, r.status)]

\* An iteration that deletes the folder for whoever has access to it.
DeleteOneFolderAnyAccess(B, user_id, folder_id, up) ==
    LET access == CheckFolderAccess(B.db, user_id, folder_id)
        B1 == [B EXCEPT !.db = [DeleteFolderById(@, folder_id, user_id)
                                   EXCEPT !.uploads = @ \ {<<user_id, folder_id>>}]]
        B2 == ClientDeleteIndex(B1, up, GetFolderPath(user_id, folder_id))
    IN IF B.status # "ok" THEN B
       ELSE IF access = "none" THEN [B EXCEPT !.status = "403"]
       ELSE IF B2.status = "ok" THEN [B2 EXCEPT !.deleted = @ + 1] ELSE B2

\* One iteration of delete_folder's loop (images_routes.py lines 80-117).
DeleteOneFolder(B, user_id, folder_id, up) ==
    LET access == CheckFolderAccess(B.db, user_id, folder_id)
        B1 == [B EXCEPT !.db = [DeleteFolderById(@, folder_id, user_id)
                                   EXCEPT !.uploads = @ \ {<<user_id, folder_id>>}]]
        B2 == ClientDeleteIndex(B1, up, GetFolderPath(user_id, folder_id))
    IN IF B.status # "ok" THEN B
       ELSE IF access = "none" THEN [B EXCEPT !.status = "403"]
       ELSE IF access = "owner"
       THEN IF B2.status = "ok" THEN [B2 EXCEPT !.deleted = @ + 1] ELSE B2
       ELSE [B EXCEPT !.db = RemoveFolderShareForUser(@, folder_id, user_id),
                      !.unshared = @ + 1]

RECURSIVE DeleteFolders(_, _, _, _)
DeleteFolders(B, user_id, folder_ids, up) ==
    IF folder_ids = <<>> THEN B
    ELSE DeleteFolders(DeleteOneFolder(B, user_id, Head(folder_ids), up),
                       user_id, Tail(folder_ids), up)

\* DELETE /api/folders for the user of the token (NoUser: no such session):
\* the route runs to its answer, the search service reachable (up) or not.
DeleteFolder(t, user_id, folder_ids, up) ==
    LET B0 == [db |-> db, map |-> index_cache, order |-> cache_access_order,
               disk |-> disk, done |-> done, status |-> "ok",
               deleted |-> 0, unshared |-> 0, index_deletes |-> <<>>]
        B == IF user_id = NoUser THEN [B0 EXCEPT !.status = "404"]
             ELSE DeleteFolders(B0, user_id, folder_ids, up)
    IN /\ Idle(t)
       /\ pc' = [pc EXCEPT ![t] = "done"]
       /\ req' = [req EXCEPT ![t] = [NoReq EXCEPT !.op = "delete_folder", !.fids = folder_ids,
                                                   !.key = <<user_id, 0>>]]
       /\ out' = [out EXCEPT ![t] = [NoOut EXCEPT !.status = B.status,
                                                   !.result = <<B.deleted, B.unshared>>,
                                                   !.index_deletes = B.index_deletes]]
       /\ prev' = [prev EXCEPT ![t] = NoPrev]
       /\ nops' = nops + 1
       /\ db' = B.db
       /\ disk' = B.disk
       /\ index_cache' = B.map
       /\ cache_access_order' = B.order
       /\ recency' = KeepCached(recency, B.map)
       /\ done' = B.done
       /\ UNCHANGED loc

\* The backend in front of the search service: folder 1 of user 1, folder
\* 2 of either user, each with one image, shared or not with the other
\* user, its index present or missing.
BackendArtifacts == {NoFile(0), File(<<Entry(1, Normalize(<<3, 4>>))>>, 1)}

BackendInit ==
    /\ \E o2 \in Owners, sh \in SUBSET {<<1, 2>>, <<2, 1>>} :
         db = [NoDb EXCEPT
                 !.folders = {<<1, 1>>, <<o2, 2>>},
                 !.shares = {s \in sh : <<s[2], s[1]>> \notin {<<1, 1>>, <<o2, 2>>}},
                 !.images = {<<1, 1>>, <<2, 2>>},
                 !.uploads = {<<1, 1>>, <<o2, 2>>}]
    /\ \E a \in BackendArtifacts, b \in BackendArtifacts :
         disk = [p \in AllPaths |->
                    IF p[2] = 1 /\ <<p[1], 1>> \in db.folders THEN a
                    ELSE IF p[2] = 2 /\ <<p[1], 2>> \in db.folders THEN b
                    ELSE NoFile(0)]
    /\ index_cache = [p \in AllPaths |-> NoIndex]
    /\ cache_access_order = <<>>
    /\ recency = <<>>
    /\ pc = [t \in Threads |-> "idle"]
    /\ req = [t \in Threads |-> NoReq]
    /\ loc = [t \in Threads |-> NoLoc]
    /\ out = [t \in Threads |-> NoOut]
    /\ prev = [t \in Threads |-> NoPrev]
    /\ done = [p \in AllPaths |-> 0]
    /\ nops = 0

\* The owner of each folder, as the backend's search route passes it on.
OwnerMapOf(d) ==
    [f \in Folders |-> IF \E o \in Owners : <<o, f>> \in d.folders
                       THEN CHOOSE o \in Owners : <<o, f>> \in d.folders
                       ELSE NoOwner]

BackendDeleteFolder ==
    /\ CanStart
    /\ \E user_id \in Owners \cup {NoUser}, folder_ids \in SeqFolderLists, up \in BOOLEAN :
         DeleteFolder(1, user_id, folder_ids, up)

BackendSearch ==
    /\ CanStart
    /\ \E folder_ids \in {<<1>>, <<1, 2>>} :
         Search(1, folder_ids, OwnerMapOf(db), <<6, 8>>, KMax)

\* The folders in the order the database lists them.
FolderList == <<1, 2>>

\* get_all_accessible_folders: the owned folders, then the shared ones.
GetAllAccessibleFolders(d, user_id) ==
    SelectSeq(FolderList, LAMBDA f : CheckFolderAccess(d, user_id, f) = "owner")
        \o SelectSeq(FolderList, LAMBDA f : CheckFolderAccess(d, user_id, f) = "shared")

\* A route that forwards every requested folder with the folder's owner.
ForwardedFoldersUnchecked(d, user_id, folder_ids) ==
    IF folder_ids = <<>> THEN GetAllAccessibleFolders(d, user_id)
    ELSE SelectSeq(folder_ids, LAMBDA f : OwnerMapOf(d)[f] # NoOwner)

\* search_images, lines 222-249: folder_id_list, every accessible folder
\* when none is requested, else the requested ones the user has access to.
ForwardedFolders(d, user_id, folder_ids) ==
    IF folder_ids = <<>> THEN GetAllAccessibleFolders(d, user_id)
    ELSE SelectSeq(folder_ids, LAMBDA f : CheckFolderAccess(d, user_id, f) # "none")

\* search_images, lines 224-249: folder_owner_map, the user for an owned
\* folder and the owner_id of the access record for a shared one.
ForwardedOwnerMap(d, user_id, fids) ==
    [f \in Folders |->
        IF ~InList(fids, f) THEN NoOwner
        ELSE IF CheckFolderAccess(d, user_id, f) = "owner" THEN user_id
        ELSE OwnerMapOf(d)[f]]

\* GET /api/images/search for the user of the token: the route builds the
\* list and the map, the client posts them to the search service (up, or
\* not reachable) and the service runs search_with_ownership.
SearchImages(t, user_id, folder_ids, query, k, up) ==
    LET fids == ForwardedFolders(db, user_id, folder_ids)
        omap == ForwardedOwnerMap(db, user_id, fids)
        r == SearchWithOwnership(index_cache, cache_access_order, disk, fids, omap, query, k)
        sent == user_id # NoUser /\ up
    IN /\ Idle(t)
       /\ pc' = [pc EXCEPT ![t] = "done"]
       /\ req' = [req EXCEPT ![t] = [SearchRequest(folder_ids, omap, query, k)
                                        EXCEPT !.op = "search_images", !.key = <<user_id, 0>>]]
       /\ out' = [out EXCEPT ![t] =
                    IF user_id = NoUser THEN [NoOut EXCEPT !.status = "404"]
                    ELSE IF ~up
                    THEN [NoOut EXCEPT !.status = "500",
                                       !.forwarded = [fids |-> fids, omap |-> omap]]
                    ELSE [NoOut EXCEPT !.status = IF r.status = "ok" THEN "ok" ELSE "500",
                                       !.result = r.result, !.used = r.used,
                                       !.forwarded = [fids |-> fids, omap |-> omap],
                                       !.evicted = CachedPaths(index_cache) \ CachedPaths(r.map)]]
       /\ prev' = [prev EXCEPT ![t] = NoPrev]
       /\ nops' = nops + 1
       /\ index_cache' = IF sent THEN r.map ELSE index_cache
       /\ cache_access_order' = IF sent THEN r.order ELSE cache_access_order
       /\ recency' = IF sent
                     THEN Recency(recency, [i \in DOMAIN r.used |-> r.used[i].key], r.map)
                     ELSE recency
       /\ UNCHANGED <<disk, done, db, loc>>

\* No folder requested (every accessible one is searched), one, or two.
BackendFolderLists == {<<>>, <<2>>, <<1, 2>>}

BackendSearchImages ==
    /\ CanStart
    /\ \E user_id \in Owners \cup {NoUser}, folder_ids \in BackendFolderLists, up \in BOOLEAN :
         SearchImages(1, user_id, folder_ids, <<6, 8>>, KMax, up)

BackendNext == BackendDeleteFolder \/ BackendSearch \/ BackendSearchImages

SpecBackend == BackendInit /\ [][BackendNext]_vars

\* The folders a request lists are distinct folders of the user.
OwnsAll(d, user_id, folder_ids) ==
    /\ user_id # NoUser
    /\ \A i \in DOMAIN folder_ids : <<user_id, folder_ids[i]>> \in d.folders
    /\ \A i, j \in DOMAIN folder_ids : folder_ids[i] = folder_ids[j] => i = j

\* C14: a folder delete by the owner completes and removes the folders'
\* records whatever becomes of the index deletion: neither the delete-index
\* endpoint nor the client's delete_index lets a failure (no artifact,
\* service unreachable) out.
C14_BestEffortDelete ==
    [][Ran(1, "delete_folder") /\ OwnsAll(db, req'[1].key[1], req'[1].fids)
         => /\ out'[1].status = "ok"
            /\ out'[1].result = <<Len(req'[1].fids), 0>>
            /\ \A i \in DOMAIN req'[1].fids :
                 /\ <<req'[1].key[1], req'[1].fids[i]>> \notin db'.folders
                 /\ \A im \in db'.images : im[1] # req'[1].fids[i]]_vars

\* A completed delete of two folders whose index deletions failed, the
\* records gone.
C14_Witness ==
    /\ Finished(1, "delete_folder")
    /\ out[1].status = "ok"
    /\ Len(req[1].fids) = 2
    /\ \A i \in DOMAIN out[1].index_deletes : out[1].index_deletes[i] # "ok"
    /\ db.folders = {}
    /\ db.images = {}

CacheInit ==
    /\ disk = [p \in AllPaths |-> File(<<Entry(p[1], Normalize(<<3, 4>>))>>, 1)]
    /\ index_cache = [p \in AllPaths |-> NoIndex]
    /\ cache_access_order = <<>>
    /\ recency = <<>>
    /\ pc = [t \in Threads |-> "idle"]
    /\ req = [t \in Threads |-> NoReq]
    /\ loc = [t \in Threads |-> NoLoc]
    /\ out = [t \in Threads |-> NoOut]
    /\ prev = [t \in Threads |-> NoPrev]
    /\ done = [p \in AllPaths |-> 0]
    /\ nops = 0
    /\ db = NoDb

\* Searches of one or two folders, under any owner.
CacheFolderLists == {<<1>>, <<2>>, <<1, 2>>}

CacheSearch ==
    /\ CanStart
    /\ \E folder_ids \in CacheFolderLists, omap \in [Folders -> Owners] :
         Search(1, folder_ids, omap, <<6, 8>>, 1)

CacheAdd ==
    /\ CanStart
    /\ \E key \in SeqPaths : AddVectors(1, "add", key, <<<<8, 6>>>>, <<2>>)

CacheDelete == CanStart /\ \E key \in SeqPaths : DeleteFaissIndex(1, key)

CacheNext == CacheSearch \/ CacheAdd \/ CacheDelete

SpecCache == CacheInit /\ [][CacheNext]_vars

\* C17: whenever a request has returned, the cache holds at most
\* CacheSize indexes.
C17_CacheBounded ==
    Cardinality(CachedPaths(index_cache)) <= CacheSize

\* A full cache after a search that loaded two indexes and evicted two.
C17_Witness ==
    /\ Finished(1, "search")
    /\ Cardinality(CachedPaths(index_cache)) = CacheSize
    /\ Len(out[1].used) = 2
    /\ Cardinality(out[1].evicted) = 2

\* The path a search of one folder asks the cache for.
OnePath(r) == GetFolderPath(r.omap[r.fids[1]], r.fids[1])

\* C18: the cache evicts in least-recently-used order.  A get_or_load of a
\* stored scope leaves it cached and most recently used; a hit evicts
\* nothing, a load into a cache with room evicts nothing, and a load into a
\* full cache evicts exactly the cached scope whose last access is the
\* oldest.
C18_LruEviction ==
    [][(Ran(1, "search") /\ Len(req'[1].fids) = 1 /\ disk[OnePath(req'[1])].st = "ok")
         => LET key == OnePath(req'[1])
                evicted == CachedPaths(index_cache) \ CachedPaths(index_cache')
            IN /\ index_cache'[key].has
               /\ cache_access_order'[Len(cache_access_order')] = key
               /\ IF index_cache[key].has \/ Cardinality(CachedPaths(index_cache)) < CacheSize
                  THEN evicted = {}
                  ELSE evicted = {recency[1]}]_vars

\* A load into a full cache that evicted one index and kept another.
C18_Witness ==
    /\ Finished(1, "search")
    /\ Len(req[1].fids) = 1
    /\ Cardinality(out[1].evicted) = 1
    /\ Cardinality(CachedPaths(index_cache)) = CacheSize
    /\ nops >= 3
    /\ \A p \in AllPaths : disk[p].ver = 1

\* C19: a search, whatever it finds cached, loads or evicts, creates,
\* changes and removes no artifact: the disk is the same after it as
\* before.
C19_SearchReadOnly ==
    [][Ran(1, "search") => UNCHANGED disk]_vars

\* A search of two folders that evicted one index, after a request that
\* changed an artifact.
C19_Witness ==
    /\ Finished(1, "search")
    /\ Len(out[1].used) = 2
    /\ Cardinality(out[1].evicted) = 1
    /\ \E p \in AllPaths : disk[p].ver > 1

\* ------------------------------------------- two scopes, two threads
\* Two requests that mutate distinct scopes, one per thread, each made of
\* the steps of its handler and interleaved with the other's.  A third
\* scope is stored all along.
ScopeOf(t) == <<t, t>>

OtherScope == <<1, 2>>

PairVectors == <<<<8, 6>>>>

PairBatches == {<<PairVectors, <<2>>>>, <<PairVectors, <<>>>>}

\* The orders in which the cache may hold indexes of the paths of S.
CacheOrders(S) ==
    {o \in UNION {[1..n -> S] : n \in 0..Min(CacheSize, Cardinality(S))} :
        \A i, j \in DOMAIN o : i # j => o[i] # o[j]}

PairInit ==
    /\ \E stored \in SUBSET SeqPaths :
         /\ disk = [p \in AllPaths |->
                      IF p \in stored \cup {OtherScope}
                      THEN File(<<Entry(p[2], Normalize(<<3, 4>>))>>, 1)
                      ELSE NoFile(0)]
         /\ \E o \in CacheOrders(stored \cup {OtherScope}) :
              /\ cache_access_order = o
              /\ recency = o
              /\ index_cache = [p \in AllPaths |->
                                  IF InList(o, p)
                                  THEN IndexObj(<<Entry(p[2], Normalize(<<3, 4>>))>>, 1, p)
                                  ELSE NoIndex]
    /\ pc = [t \in Threads |-> "idle"]
    /\ req = [t \in Threads |-> NoReq]
    /\ loc = [t \in Threads |-> NoLoc]
    /\ out = [t \in Threads |-> NoOut]
    /\ prev = [t \in Threads |-> NoPrev]
    /\ done = [p \in AllPaths |-> 0]
    /\ nops = 0
    /\ db = NoDb

PairCreate == \E t \in Threads : pc[t] = "idle" /\ StartCreate(t, ScopeOf(t))

PairAdd ==
    \E t \in Threads :
        pc[t] = "idle" /\ StartAdd(t, "add", ScopeOf(t), PairVectors, <<2>>)

PairAddBatch ==
    \E t \in Threads, b \in PairBatches :
        pc[t] = "idle" /\ StartAdd(t, "add_batch", ScopeOf(t), b[1], b[2])

PairDelete == \E t \in Threads : pc[t] = "idle" /\ StartDelete(t, ScopeOf(t))

PairStep ==
    \E t \in Threads :
        \/ FinishCreate(t)
        \/ AddRead(t)
        \/ AddWrite(t)
        \/ AddFlush(t)
        \/ AddInvalidate(t)
        \/ DeleteRemove(t)

PairNext == PairCreate \/ PairAdd \/ PairAddBatch \/ PairDelete \/ PairStep

SpecPair == PairInit /\ [][PairNext]_vars

\* What the request of thread t leaves when nothing else runs between its
\* start and its return: [file, cached, status], from what it found.
Serial(t) ==
    LET l == loc[t]
        r == req[t]
        found == [st |-> l.st0, ix |-> l.ix0, ver |-> l.ver0]
        pre == AddPrecheck(r.op, [p \in AllPaths |-> found], r.key, r.vecs, r.ids)
    IN IF r.op = "create"
       THEN [file |-> File(EmptyIndex, l.ver0 + 1), cached |-> l.cached0, status |-> "ok"]
       ELSE IF r.op = "delete"
       THEN [file |-> NoFile(IF l.st0 = "none" THEN l.ver0 ELSE l.ver0 + 1),
             cached |-> NoIndex,
             status |-> IF l.st0 = "none" THEN "NotFound" ELSE "ok"]
       ELSE IF pre = "go"
       THEN [file |-> File(AddWithIds(l.ix0, r.vecs, r.ids), l.ver0 + 1),
             cached |-> NoIndex, status |-> "ok"]
       ELSE [file |-> found, cached |-> l.cached0,
             status |-> IF pre = "empty" THEN "ok" ELSE pre]

PairDone == \A t \in Threads : pc[t] = "done"

SerialOutcome ==
    /\ \A t \in Threads :
         /\ disk[ScopeOf(t)] = Serial(t).file
         /\ index_cache[ScopeOf(t)] = Serial(t).cached
         /\ out[t].status = Serial(t).status
    /\ cache_access_order = recency

\* A step of a request on scope S changes the artifact and the cache entry
\* of no other scope.
OtherScopesKept ==
    \A t \in Threads :
        pc'[t] # pc[t] =>
            \A p \in AllPaths \ {req'[t].key} :
                disk'[p] = disk[p] /\ index_cache'[p] = index_cache[p]

\* C20: create, add, add_batch and delete on a scope leave the artifact and
\* the cache entry of every other scope as they were, and two mutations of
\* distinct scopes that run concurrently end in the state that running them
\* one after the other, in either order, ends in.
C20_ScopeIsolation ==
    /\ [](PairDone => SerialOutcome)
    /\ [][OtherScopesKept]_vars

\* An add on a cached scope and a delete on another scope ran at the same
\* time and both succeeded, and the third scope is still cached.
C20_Witness ==
    /\ PairDone
    /\ req[1].op = "add" /\ out[1].status = "ok"
    /\ req[2].op = "delete" /\ out[2].status = "ok"
    /\ 1 \in loc[2].busy0
    /\ loc[1].cached0.has /\ ~index_cache[ScopeOf(1)].has
    /\ index_cache[OtherScope].has

\* A vector of L2 norm 1, in fifths.
IsUnit(v) == Dot(v, v) = 25

RoundScope == <<1, 1>>

\* Batches with distinct ids, two images with the same embedding included.
RoundBatches ==
    {<<<<v>>, <<1>>>> : v \in Vecs} \cup {<<<<v, w>>, <<1, 2>>>> : v \in Vecs, w \in Vecs}

RoundCreate == CanStart /\ CreateFaissIndex(1, RoundScope)

RoundAddBatch ==
    /\ CanStart
    /\ disk[RoundScope] = File(EmptyIndex, disk[RoundScope].ver)
    /\ \E b \in RoundBatches : AddVectors(1, "add_batch", RoundScope, b[1], b[2])

RoundSearch ==
    /\ CanStart
    /\ \E query \in Vecs :
         Search(1, <<RoundScope[2]>>, [f \in Folders |-> RoundScope[1]], query, 1)

RoundNext == RoundCreate \/ RoundAddBatch \/ RoundSearch

SpecRound == Init /\ [][RoundNext]_vars

\* The positions of the stored pairs whose vector is the query's.
SameAs(q) == {i \in DOMAIN disk[RoundScope].ix : disk[RoundScope].ix[i].vec = Normalize(q)}

RoundTripped == Finished(1, "search") /\ disk[RoundScope].st = "ok"

\* C22 as stated: after create and add_batch, a search of the scope with
\* v_i and k = 1 returns id_i with the maximal score, for every i.
C22_RoundTrip ==
    RoundTripped =>
        \A i \in SameAs(req[1].q) :
            out[1].result = <<<<25, disk[RoundScope].ix[i].id, RoundScope[2]>>>>

\* C22, corrected: after create and add_batch, a search of the scope with
\* v_i and k = 1 returns, with the maximal score, the id of a pair of the
\* batch whose normalized vector is that of v_i; it is id_i when no other
\* pair of the batch has the same normalized vector.
C22_RoundTripDistinct ==
    RoundTripped /\ SameAs(req[1].q) # {} =>
        /\ Len(out[1].result) = 1
        /\ out[1].result[1][1] = 25
        /\ out[1].result[1][3] = RoundScope[2]
        /\ \E i \in SameAs(req[1].q) : out[1].result[1][2] = disk[RoundScope].ix[i].id

\* A batch of two different vectors was added and the search with the
\* second returned the second id.
C22_Witness ==
    /\ RoundTripped
    /\ Len(disk[RoundScope].ix) = 2
    /\ SameAs(req[1].q) = {2}
    /\ out[1].result = <<<<25, 2, RoundScope[2]>>>>

\* C23: after any sequence of add and add_batch calls, no two pairs stored
\* in the index of one scope have the same external id.
C23_UniqueIds ==
    \A p \in AllPaths :
        \A i, j \in DOMAIN disk[p].ix :
            i # j => disk[p].ix[i].id # disk[p].ix[j].id

\* The rows and files of folder f in database d.
FolderRows(d, f) ==
    [folders |-> {x \in d.folders : x[2] = f},
     images |-> {x \in d.images : x[1] = f},
     uploads |-> {x \in d.uploads : x[2] = f}]

SharesOf(d, f) == {s \in d.shares : s[1] = f}

\* C24: a folder delete issued by a user who holds a share on the folder
\* and does not own it removes that user's share and nothing else: the
\* folder record, its image records, its stored files and its index
\* artifact stay, and the owner keeps access.
C24_SharedDelete ==
    [][Ran(1, "delete_folder") =>
         \A f \in Range(req'[1].fids) :
             CheckFolderAccess(db, req'[1].key[1], f) = "shared" =>
                 /\ FolderRows(db', f) = FolderRows(db, f)
                 /\ \A o \in Owners :
                      <<o, f>> \in db.folders =>
                          /\ disk'[<<o, f>>] = disk[<<o, f>>]
                          /\ CheckFolderAccess(db', o, f) = "owner"
                 /\ SharesOf(db, f) \ SharesOf(db', f) \subseteq {<<f, req'[1].key[1]>>}
                 /\ SharesOf(db', f) \subseteq SharesOf(db, f)
                 /\ out'[1].status = "ok" => <<f, req'[1].key[1]>> \notin db'.shares]_vars

\* A user removed a folder shared with them from their view: the route
\* answered with one share removed, and the owner's folder, image and
\* index are there.
C24_Witness ==
    /\ Finished(1, "delete_folder")
    /\ out[1].status = "ok"
    /\ out[1].result = <<0, 1>>
    /\ \E f \in Range(req[1].fids), o \in Owners \ {req[1].key[1]} :
         /\ <<o, f>> \in db.folders
         /\ <<f, req[1].key[1]>> \notin db.shares
         /\ disk[<<o, f>>].st = "ok"
         /\ \E x \in db.images : x[1] = f

HasAccess(d, user_id, f) == CheckFolderAccess(d, user_id, f) # "none"

\* C25: the search route forwards to the search service only folders the
\* requesting user owns or holds a share on when the request is made, each
\* with its owner, and whatever folders are requested no result comes from
\* a folder, or from the index of a folder, the user has no access to.
C25_SearchPermissions ==
    [][Ran(1, "search_images") =>
         LET u == req'[1].key[1]
             fwd == out'[1].forwarded
         IN /\ \A f \in Range(fwd.fids) :
                  /\ HasAccess(db, u, f)
                  /\ <<fwd.omap[f], f>> \in db.folders
            /\ \A f \in Folders : fwd.omap[f] # NoOwner => InList(fwd.fids, f)
            /\ \A i \in DOMAIN out'[1].result : HasAccess(db, u, out'[1].result[i][3])
            /\ \A i \in DOMAIN out'[1].used :
                  /\ HasAccess(db, u, out'[1].used[i].fid)
                  /\ out'[1].used[i].key[2] = out'[1].used[i].fid
                  /\ out'[1].used[i].key \in db.folders]_vars

\* User 1 asked for folders 1 and 2, has no access to folder 2, whose
\* index is stored under its owner, and got a result from folder 1 only.
C25_Witness ==
    /\ Finished(1, "search_images")
    /\ req[1].key = <<1, 0>>
    /\ req[1].fids = <<1, 2>>
    /\ <<2, 2>> \in db.folders /\ <<2, 1>> \notin db.shares
    /\ disk[<<2, 2>>].st = "ok" /\ disk[<<2, 2>>].ix # <<>>
    /\ out[1].forwarded.fids = <<1>>
    /\ Len(out[1].result) = 1
    /\ out[1].result[1][3] = 1

Mutations == {"create", "add", "add_batch", "delete"}

\* C26: every create, add, add_batch and delete that changes the artifact
\* of a scope and returns successfully leaves the cache without an entry
\* for the scope, so that the next search loads the artifact from disk.
C26_MutationsInvalidate ==
    [][\A op \in Mutations :
          /\ Ran(1, op)
          /\ out'[1].status = "ok"
          /\ disk'[req'[1].key] # disk[req'[1].key]
          => ~index_cache'[req'[1].key].has]_vars

\* ------------------------------------------- one search, one delete
\* A search on one thread and a delete on the other, each made of the
\* steps of its handler, over scopes stored and cached by earlier requests.
RaceFolderLists == {<<1>>, <<1, 2>>}

RaceSearch ==
    /\ pc[1] = "idle"
    /\ \E folder_ids \in RaceFolderLists :
         StartSearch(1, folder_ids, [f \in Folders |-> f], <<6, 8>>, KMax)

RaceDelete == pc[2] = "idle" /\ \E key \in SeqPaths : StartDelete(2, key)

RaceStep == SearchVisit(1) \/ SearchRead(1) \/ SearchInsert(1) \/ DeleteRemove(2)

RaceNext == RaceSearch \/ RaceDelete \/ RaceStep

SpecRace == PairInit /\ [][RaceNext]_vars

\* The index of path p as it was stored before the two requests.
StoredBefore(p) == <<Entry(p[2], Normalize(<<3, 4>>))>>

\* C27: a search that runs while one of its scopes is deleted does not
\* fail: it completes, and for that scope it either used the index as it
\* was before the delete or skipped the scope.
C27_SearchSurvivesDelete ==
    /\ Finished(1, "search")
    /\ req[2].op = "delete"
    /\ InList(req[1].fids, req[2].key[2])
    => /\ out[1].status = "ok"
       /\ \A i \in DOMAIN out[1].used :
            out[1].used[i].key = req[2].key => out[1].used[i].ix = StoredBefore(req[2].key)

\* C28: when delete returns successfully the scope has neither an artifact
\* on disk nor an entry in the cache, also when a search of the scope runs
\* at the same time.
C28_DeletedMeansGone ==
    [][/\ pc[2] = "del_remove"
       /\ pc'[2] = "done"
       /\ out'[2].status = "ok"
       => /\ disk'[req[2].key].st = "none"
          /\ ~index_cache'[req[2].key].has]_vars

\* ------------------------------------------- adds whose write may fail
\* One add or add_batch on each thread, on the same scope or on two.
\* A failed write that drops the cache entry on its way out.
AddWriteFailsInvalidating(t) ==
    LET c == InvalidateCache(index_cache, cache_access_order, req[t].key)
    IN /\ pc[t] \in {"add_write", "add_flush"}
       /\ Finish(t, [NoOut EXCEPT !.status = "WriteFailed"])
       /\ index_cache' = c.map
       /\ cache_access_order' = c.order
       /\ recency' = KeepCached(recency, c.map)
       /\ UNCHANGED <<disk, loc, done>>

\* Lines 150 and 191: faiss.write_index raises (the directory is gone, the
\* disk is full) before it has opened the file or after it has truncated
\* it; the exception leaves the handler before line 153 / 194.
AddWriteFails(t) ==
    /\ pc[t] \in {"add_write", "add_flush"}
    /\ Finish(t, [NoOut EXCEPT !.status = "WriteFailed"])
    /\ UNCHANGED <<disk, index_cache, cache_access_order, recency, loc, done>>

WriteAdd ==
    \E t \in Threads, key \in SeqPaths :
        pc[t] = "idle" /\ StartAdd(t, "add", key, PairVectors, <<2>>)

WriteAddBatch ==
    \E t \in Threads, key \in SeqPaths, b \in PairBatches :
        pc[t] = "idle" /\ StartAdd(t, "add_batch", key, b[1], b[2])

WriteStep ==
    \E t \in Threads :
        \/ AddRead(t)
        \/ AddWrite(t)
        \/ AddFlush(t)
        \/ AddWriteFails(t)
        \/ AddInvalidate(t)

WriteNext == WriteAdd \/ WriteAddBatch \/ WriteStep

SpecWrite == PairInit /\ [][WriteNext]_vars

\* Thread t takes the step that invalidates the cache entry of path p,
\* having written the new artifact, and returns successfully.
InvalidatesAfterWrite(t, p) ==
    /\ pc[t] = "add_inval"
    /\ req[t].key = p
    /\ loc[t].wver > loc[t].ver0
    /\ pc'[t] = "done"
    /\ out'[t].status = "ok"

\* C29: on add and add_batch the cache entry of the scope is dropped after
\* the new artifact has been written and only by a call whose write
\* succeeded; a call that fails before or during the write (NotFound,
\* LengthMismatch, a read or write error) leaves the cache as it is.
C29_InvalidateAfterWrite ==
    [][/\ \A p \in AllPaths :
            index_cache'[p] # index_cache[p] => \E t \in Threads : InvalidatesAfterWrite(t, p)
       /\ cache_access_order' # cache_access_order =>
            \E t \in Threads, p \in AllPaths : InvalidatesAfterWrite(t, p)
       /\ \A t \in Threads :
            pc[t] # "done" /\ pc'[t] = "done" /\ out'[t].status # "ok" =>
                UNCHANGED <<index_cache, cache_access_order>>]_vars

\* One add failed while writing and the cache still holds the entry of its
\* scope; another add wrote its artifact and dropped the entry of its own.
C29_Witness ==
    /\ Finished(1, "add") /\ out[1].status = "WriteFailed"
    /\ index_cache[req[1].key].has
    /\ disk[req[1].key].st = "partial"
    /\ Finished(2, "add_batch") /\ out[2].status = "ok" /\ out[2].inval
    /\ ~index_cache[req[2].key].has

\* The pair (id, score against the query of r) is in the index ix.
Produces(ix, r, id, score) ==
    \E j \in DOMAIN ix : ix[j].id = id /\ Dot(Normalize(r.q), ix[j].vec) = score

\* C30: every (score, external id, scope) a search returns has its scope
\* in the requested list, with an owner in the map, and the id is stored,
\* with that score, in the index of that scope under that owner, which the
\* search consulted: the scope reported is the one whose index produced
\* the result.
C30_ResultScope ==
    \A t \in Threads :
        Finished(t, "search") =>
            \A i \in DOMAIN out[t].result :
                LET res == out[t].result[i]
                    f == res[3]
                IN /\ InList(req[t].fids, f)
                   /\ req[t].omap[f] # NoOwner
                   /\ Produces(disk[GetFolderPath(req[t].omap[f], f)].ix, req[t], res[2], res[1])
                   /\ \E u \in DOMAIN out[t].used :
                        /\ out[t].used[u].fid = f
                        /\ out[t].used[u].key = GetFolderPath(req[t].omap[f], f)
                        /\ Produces(out[t].used[u].ix, req[t], res[2], res[1])

\* A search returned results of two scopes of different owners, the first
\* of which the index of the second scope does not hold.
C30_Witness ==
    /\ Finished(1, "search")
    /\ Len(out[1].result) = 2
    /\ out[1].result[1][3] # out[1].result[2][3]
    /\ req[1].omap[out[1].result[1][3]] # req[1].omap[out[1].result[2][3]]
    /\ ~Produces(disk[GetFolderPath(req[1].omap[out[1].result[2][3]], out[1].result[2][3])].ix,
                 req[1], out[1].result[1][2], out[1].result[1][1])

\* C31: in every reachable state, also while requests load and invalidate
\* indexes of the same or of different scopes at the same time, the cache
\* map and the access-order list hold the same scopes, each once.
C31_CacheListsAgree ==
    /\ Range(cache_access_order) = CachedPaths(index_cache)
    /\ \A i, j \in DOMAIN cache_access_order :
         i # j => cache_access_order[i] # cache_access_order[j]


\* ------------------------------------------------------- the upload route
\* A file of an upload request is its type, "jpg" for a name the route
\* accepts (.png, .jpg, .jpeg) and "txt" for one it refuses.  The position
\* of the first file the loop refuses, 0 when it refuses none.
FirstInvalid(files) ==
    IF \E i \in DOMAIN files : files[i] # "jpg"
    THEN CHOOSE i \in DOMAIN files :
           /\ files[i] # "jpg"
           /\ \A j \in 1..(i - 1) : files[j] = "jpg"
    ELSE 0

\* upload_multiple_images (images_routes.py lines 128-201), an async handler
\* that awaits nothing: it runs on the event loop without another upload in
\* between.  user_id: the user get_user_id_from_token returns for the
\* request's token.  up: the search service answers create_index.  A folder name
\* of a user stands for the id add_folder gives it, and a new image row
\* gets the next id (AUTOINCREMENT).
UploadMultipleImages(user_id, folderName, files, up) ==
    LET folder_id == folderName
        key == <<user_id, folder_id>>
        isNew == key \notin db.folders
        d1 == IF isNew THEN [db EXCEPT !.folders = @ \cup {key}] ELSE db
        bad == FirstInvalid(files)
        nsaved == IF bad = 0 THEN Len(files) ELSE bad - 1
        ids == [i \in 1..nsaved |-> Cardinality(db.images) + i]
        rows == {<<folder_id, ids[i]>> : i \in 1..nsaved}
        d2 == [d1 EXCEPT !.images = @ \cup rows,
                         !.files = @ \cup rows,
                         !.uploads = IF nsaved > 0 THEN @ \cup {key} ELSE @]
        created == [disk EXCEPT ![key] = File(EmptyIndex, @.ver + 1)]
    IN /\ CanStart
       /\ nops' = nops + 1
       /\ IF files = <<>>
          THEN /\ db' = [db EXCEPT !.resp = [NoResp EXCEPT !.op = "upload", !.status = 400]]
               /\ UNCHANGED disk
          ELSE IF isNew /\ ~up
          THEN /\ db' = [d1 EXCEPT !.resp = [NoResp EXCEPT !.op = "upload", !.status = 500, !.key = key]]
               /\ UNCHANGED disk
          ELSE IF bad # 0
          THEN /\ db' = [d2 EXCEPT !.resp = [NoResp EXCEPT !.op = "upload", !.status = 400, !.key = key]]
               /\ disk' = IF isNew THEN created ELSE disk
          ELSE /\ db' = [d2 EXCEPT !.resp = [NoResp EXCEPT !.op = "upload", !.status = 200, !.key = key, !.ids = ids],
                                   !.tasks = @ \cup {[key |-> key, ids |-> ids]},
                                   !.acked = @ \cup rows]
               /\ disk' = IF isNew THEN created ELSE disk
       /\ UNCHANGED <<index_cache, cache_access_order, recency, done, pc, req, loc, out,
                      prev>>

\* process_images_background (lines 32-56) on a worker thread, for a task
\* no worker has taken yet: it posts the task's images to embed_images
\* (app.py lines 176-213), which embeds them and calls add_vectors_batch;
\* the task only logs what comes back.
ProcessImagesBackground(t, task) ==
    /\ pc[t] = "idle"
    /\ \A u \in Threads : pc[u] = "idle" \/ req[u].key # task.key \/ req[u].ids # task.ids
    /\ StartAdd(t, "add_batch", task.key, [i \in DOMAIN task.ids |-> <<3, 4>>], task.ids)

\* The uploads of the check: user 1, either folder name, up to two files
\* of either type.
UploadRequest ==
    \E user_id \in {1}, folderName \in Folders, up \in BOOLEAN,
       files \in {<<>>, <<"jpg">>, <<"txt">>, <<"jpg", "jpg">>, <<"jpg", "txt">>} :
        UploadMultipleImages(user_id, folderName, files, up)

UploadStep ==
    \E t \in Threads :
        \/ AddRead(t)
        \/ AddWrite(t)
        \/ AddFlush(t)
        \/ AddInvalidate(t)

UploadNext ==
    \/ UploadRequest
    \/ \E t \in Threads, task \in db.tasks : ProcessImagesBackground(t, task)
    \/ UploadStep

SpecUpload == Init /\ [][UploadNext]_vars

\* C32: a background ingest is scheduled only for a folder whose index has
\* been created: every task the upload route has scheduled names a scope
\* whose artifact exists, whatever uploads to the folder came before.
C32_IndexBeforeIngest ==
    \A task \in db.tasks : disk[task.key].st # "none"

\* C33: once the background task of an acknowledged upload has run to a
\* successful return and no ingest is under way, every image of the upload
\* is in the folder's index, also when the tasks of two uploads to the
\* folder ran at the same time.
C33_AckedIngested ==
    \A task \in db.tasks, t \in Threads :
        ( /\ pc[t] = "done"
          /\ req[t].key = task.key
          /\ req[t].ids = task.ids
          /\ out[t].status = "ok"
          /\ \A u \in Threads : ~Adding(u) )
        => \A i \in DOMAIN task.ids :
              \E j \in DOMAIN disk[task.key].ix : disk[task.key].ix[j].id = task.ids[i]


\* ------------------------------------------------- the merge across scopes
\* One search over any store: the folders in either order or one folder
\* twice, owned by their users or both by user 1, up to one result more
\* than the scopes' longest index.
MergeSearch ==
    /\ pc[1] = "idle"
    /\ \E folder_ids \in {<<1, 2>>, <<2, 1>>, <<1, 1>>, <<2, 2>>},
          omap \in {[f \in Folders |-> f], [f \in Folders |-> 1]},
          query \in Queries, k \in 1..(KMax + 1) :
         Search(1, folder_ids, omap, query, k)

SpecMerge == SearchInit /\ [][MergeSearch]_vars

Reversed(s) == [i \in DOMAIN s |-> s[Len(s) + 1 - i]]

\* C34: a search returns the same (score, external id, folder) triples in
\* the same order as the search with the request's folders in the opposite
\* order does over the same store, also when scores tie.
C34_MergeOrder ==
    Finished(1, "search") =>
        out[1].result =
            SearchWithOwnership(index_cache, cache_access_order, disk,
                                Reversed(req[1].fids), req[1].omap, req[1].q,
                                req[1].k).result

\* C35: no (external id, folder) pair is at two positions of one search's
\* result, also when the request lists a folder more than once.
C35_NoDuplicates ==
    Finished(1, "search") =>
        \A i, j \in DOMAIN out[1].result :
            i # j => <<out[1].result[i][2], out[1].result[i][3]>> #
                     <<out[1].result[j][2], out[1].result[j][3]>>

\* C36: an upload that the route answers with 400 for a file of an invalid
\* type (the only 400 that names a folder) leaves the folder rows, the
\* image rows, the saved files and every index as they were, wherever the
\* invalid file stands in the request.
C36_RejectedLeavesNoTrace ==
    [][ ( /\ nops' = nops + 1
          /\ pc' = pc
          /\ db'.resp.op = "upload"
          /\ db'.resp.status = 400
          /\ db'.resp.key # NoPath )
        => /\ db'.folders = db.folders
           /\ db'.images = db.images
           /\ db'.files = db.files
           /\ db'.uploads = db.uploads
           /\ disk' = disk ]_vars


\* ------------------------------------------------------------- sessions
\* Last reading of the clock, and the tokens login can generate.
MaxTime == 4
MaxTokens == 2

\* SESSION_TTL (security.py line 8), 12 hours, in ticks of the clock.
SessionTTL == 2

\* cleanup_expired_sessions: DELETE FROM sessions WHERE expires_at <= now.
CleanupExpiredSessions(d) ==
    [d EXCEPT !.sessions = {s \in @ : s.expires_at > d.now}]

\* A get_user_id_from_token that returns the user of any row it finds.
GetUserIdFromTokenAnyRow(d, token, late) ==
    LET rows == {s \in d.sessions : s.token = token}
    IN [db |-> [d EXCEPT !.now = @ + (IF late THEN 1 ELSE 0)],
        user_id |-> IF rows = {} THEN NoUser ELSE (CHOOSE s \in rows : TRUE).user_id]

\* get_user_id_from_token (session_store.py lines 31-50): [db, user_id],
\* user_id = NoUser when it raises.  late: the clock moves on between the
\* cleanup and the comparison with _now().
GetUserIdFromToken(d, token, late) ==
    LET d1 == [CleanupExpiredSessions(d) EXCEPT !.now = @ + (IF late THEN 1 ELSE 0)]
        rows == {s \in d1.sessions : s.token = token}
        session == CHOOSE s \in rows : TRUE
    IN IF rows = {} THEN [db |-> d1, user_id |-> NoUser]
       ELSE IF session.expires_at <= d1.now
       THEN [db |-> [d1 EXCEPT !.sessions = @ \ rows], user_id |-> NoUser]
       ELSE [db |-> [d1 EXCEPT !.sessions =
                        (@ \ rows) \cup {[session EXCEPT !.expires_at = d1.now + SessionTTL,
                                                         !.last_seen = d1.now]}],
             user_id |-> session.user_id]

\* login once the password is verified (user_routes.py lines 76-84):
\* issue_session_token (session_store.py lines 22-28).  secrets.token_urlsafe
\* gives a token that was never generated before.
Login(user_id) ==
    LET d1 == CleanupExpiredSessions(db)
        token == db.issued + 1
    IN /\ CanStart
       /\ db.issued < MaxTokens
       /\ nops' = nops + 1
       /\ db' = [d1 EXCEPT !.sessions = @ \cup {[token |-> token, user_id |-> user_id,
                                                 expires_at |-> db.now + SessionTTL,
                                                 last_seen |-> db.now]},
                           !.issued = token,
                           !.resp = [NoResp EXCEPT !.op = "login", !.status = 200,
                                                   !.token = token, !.user_id = user_id]]
       /\ UNCHANGED <<disk, index_cache, cache_access_order, recency, done, pc, req, loc,
                      out, prev>>

\* A route that asks get_user_id_from_token for the user of its token
\* (images_routes.py lines 146 and 216): the exception it raises is not
\* caught and the request fails.
Authenticate(token, late) ==
    LET r == GetUserIdFromToken(db, token, late)
    IN /\ CanStart
       /\ late => db.now < MaxTime
       /\ nops' = nops + 1
       /\ db' = [r.db EXCEPT !.resp = [NoResp EXCEPT !.op = "request",
                                          !.status = IF r.user_id = NoUser THEN 500 ELSE 200,
                                          !.token = token, !.user_id = r.user_id]]
       /\ UNCHANGED <<disk, index_cache, cache_access_order, recency, done, pc, req, loc,
                      out, prev>>

\* A logout that ends every session of the token's user.
LogoutEverywhere(token, late) ==
    LET r == GetUserIdFromToken(db, token, late)
    IN /\ CanStart
       /\ late => db.now < MaxTime
       /\ nops' = nops + 1
       /\ db' = [r.db EXCEPT !.sessions = IF r.user_id = NoUser THEN @
                                          ELSE {s \in @ : s.user_id # r.user_id},
                             !.revoked = IF r.user_id = NoUser THEN @ ELSE @ \cup {token},
                             !.resp = [NoResp EXCEPT !.op = "logout",
                                          !.status = IF r.user_id = NoUser THEN 401 ELSE 200,
                                          !.token = token, !.user_id = r.user_id]]
       /\ UNCHANGED <<disk, index_cache, cache_access_order, recency, done, pc, req, loc,
                      out, prev>>

\* logout (user_routes.py lines 87-95): 401 when get_user_id_from_token
\* raises, else invalidate_session, which deletes the token's row.
Logout(token, late) ==
    LET r == GetUserIdFromToken(db, token, late)
    IN /\ CanStart
       /\ late => db.now < MaxTime
       /\ nops' = nops + 1
       /\ db' = [r.db EXCEPT !.sessions = IF r.user_id = NoUser THEN @
                                          ELSE {s \in @ : s.token # token},
                             !.revoked = IF r.user_id = NoUser THEN @ ELSE @ \cup {token},
                             !.resp = [NoResp EXCEPT !.op = "logout",
                                          !.status = IF r.user_id = NoUser THEN 401 ELSE 200,
                                          !.token = token, !.user_id = r.user_id]]
       /\ UNCHANGED <<disk, index_cache, cache_access_order, recency, done, pc, req, loc,
                      out, prev>>

\* Time passes between requests.
Tick ==
    /\ db.now < MaxTime
    /\ db' = [db EXCEPT !.now = @ + 1]
    /\ UNCHANGED <<disk, index_cache, cache_access_order, recency, done, pc, req, loc,
                   out, prev, nops>>

SessionNext ==
    \/ \E user_id \in Owners : Login(user_id)
    \/ \E token \in 1..MaxTokens, late \in BOOLEAN : Authenticate(token, late)
    \/ \E token \in 1..MaxTokens, late \in BOOLEAN : Logout(token, late)
    \/ Tick

SpecSession == Init /\ [][SessionNext]_vars

\* The step is a request or a logout that presented the token.
Presented(token) ==
    /\ nops' = nops + 1
    /\ db'.resp.op \in {"request", "logout"}
    /\ db'.resp.token = token

\* C37: a request is authenticated only for a token whose row has its
\* expiry after the moment of the check; a request that is authenticated
\* leaves the expiry SessionTTL after that moment; a token presented at or
\* after its expiry is refused and its row is gone afterwards.
C37_SessionExpiry ==
    [][ \A token \in 1..MaxTokens :
          Presented(token) =>
            LET rows == {s \in db.sessions : s.token = token}
                accepted == db'.resp.user_id # NoUser
            IN /\ accepted => \E s \in rows : s.expires_at > db'.now
               /\ accepted /\ db'.resp.op = "request" =>
                    \E s \in db'.sessions :
                       s.token = token /\ s.expires_at = db'.now + SessionTTL
               /\ (\E s \in rows : s.expires_at <= db'.now) =>
                    /\ ~accepted
                    /\ \A s \in db'.sessions : s.token # token ]_vars

\* A token that was issued and not logged out is refused because it has
\* expired, while another session has been kept alive.
C37_Witness ==
    /\ db.resp.op = "request"
    /\ db.resp.user_id = NoUser
    /\ db.resp.token \in 1..db.issued
    /\ db.resp.token \notin db.revoked
    /\ \E s \in db.sessions : s.expires_at > 2 * SessionTTL

\* C38: a request or logout that presents a token a logout has succeeded
\* for is refused, and a logout that succeeds leaves every other session
\* that has not expired as it was.
C38_LogoutIsFinal ==
    [][ \A token \in 1..MaxTokens :
          Presented(token) =>
            /\ db'.resp.user_id # NoUser => token \notin db.revoked
            /\ db'.resp.op = "logout" /\ db'.resp.status = 200 =>
                 /\ token \in db'.revoked
                 /\ \A s \in db.sessions :
                      s.token # token /\ s.expires_at > db'.now => s \in db'.sessions ]_vars

\* A request with a logged-out token is refused while the user has another
\* session.
C38_Witness ==
    /\ db.resp.op = "request"
    /\ db.resp.user_id = NoUser
    /\ db.resp.token \in db.revoked
    /\ \E s \in db.sessions : s.token # db.resp.token

====
